---- MODULE Spec2Model ----
(***************************************************************************)
(* Portfoy-Takip: the FIFO lot matcher and valuation engine                *)
(* (src-tauri/src/calculator.rs) and the market-data fetchers              *)
(* (src-tauri/src/scraper.rs).                                             *)
(*                                                                         *)
(* Numbers.  The program computes in f64.  Quantities and prices are       *)
(* modelled as integers (every value the model draws is exactly            *)
(* representable, and sums and products of them are exact in f64); an f64  *)
(* quotient is modelled as the exact fraction [num, den], see Div.         *)
(* Rounding of non-representable decimals is outside the model.            *)
(*                                                                         *)
(* Texts.  A text that is only compared is a TLA+ string; a text that is   *)
(* scanned character by character (a scraped price) is a sequence of       *)
(* one-character strings.  "ALI_S" stands for the kind text whose last     *)
(* letter is U+015E (S with cedilla), "ali_s" for its lower-case spelling. *)
(***************************************************************************)
EXTENDS Integers, Sequences, FiniteSets, TLC

VARIABLES
    rows,          \* calculator.rs:45-51  the rows of the ledger query replayed so far
    fifo_queues,   \* calculator.rs:53     symbol -> Vec<(qty, price, type)>
    realized_pnl,  \* calculator.rs:54
    holdings,      \* calculator.rs:86     the Vec<Holding> returned (as a set: HashMap order)
    assets,        \* db.rs:45-54          the assets table, symbol -> row
    pc,            \* position of get_current_holdings: "replay" | "done"
    \* get_realized_pnl_in_range
    start_date,    \* calculator.rs:120    Option<String>
    end_date,      \* calculator.rs:120    Option<String>
    r_queues,      \* calculator.rs:129    symbol -> Vec<(qty, price)>
    r_pnl,         \* calculator.rs:130    its realized_pnl
    r_date,        \* transaction_date of the row replayed last (0: none yet)
    r_count,       \* rows replayed by the two matchers side by side
    profit_ok,     \* history: no sale so far took a part of a lot at a loss
    range_perf,    \* calculator.rs:272    what get_range_performance returned, or None
    \* get_portfolio_summary and the stores it reads and writes
    transactions,  \* db.rs:24-40          the transactions table, in query order
    snapshots,     \* db.rs:60-72          portfolio_snapshots, the set of its rows
    local_today,   \* calculator.rs:240    the day of Local::now()
    utc_today,     \* calculator.rs:259    the day of SQLite's date('now')
    summary,       \* the PortfolioSummary of the last command, None after another command
    calc,          \* the get_portfolio_summary computations that run side by side:
                   \* for each its position and what it has read
    \* update_general_assets: the price of one scraped row
    price_text,    \* scraper.rs:79        p_t, the text of the price element
    parsed_price,  \* scraper.rs:105       price, None until parsed
    \* update_tefas_funds: the search for the trading date
    clock,         \* scraper.rs:184       the day number of Local::now()
    ticks,         \*                      midnights passed since the command began
    probe_i,       \* scraper.rs:183       i of the loop
    probes,        \* scraper.rs:183-204   what each iteration so far did
    valid_date_str, \* scraper.rs:180      None for the empty string
    probe_pc,      \* "probe" in the loop, "found" after break, "none" after the
                   \* return of line 207
    \* update_market_data: one fetch pipeline from the gate to the commit
    source,        \* what the remote sources answer with
    minute,        \* the minute of the day of Local::now()
    fetch_pc,      \* "idle" | "fetching" | "writing"
    update_type,   \* lib.rs:87            "general" | "tefas"
    forced,        \* lib.rs:87            force
    requested,     \* the requests sent by the running command
    all_assets,    \* scraper.rs:64, 231   the records still to upsert
    tx,            \* scraper.rs:126, 258  the tables as the open transaction sees them
    before,        \* history: the assets table when the command began
    returned,      \* what the last command returned: None, "Ok" or "Err"
    last_commit,   \* history: the pipeline that committed the last batch
    runs           \* commands started

holdingsVars == <<rows, fifo_queues, realized_pnl, holdings, assets, pc>>

rangeVars == <<start_date, end_date, r_queues, r_pnl, r_date, r_count, profit_ok, range_perf>>

summaryVars == <<transactions, snapshots, local_today, utc_today, summary, calc>>

parseVars == <<price_text, parsed_price>>
probeVars == <<clock, ticks, probe_i, probes, valid_date_str, probe_pc>>
pipelineVars == <<source, minute, fetch_pc, update_type, forced, requested, all_assets,
                  tx, before, returned, last_commit, runs>>
fetchVars == <<parseVars, probeVars, pipelineVars>>

vars == <<holdingsVars, rangeVars, summaryVars, fetchVars>>

----------------------------------------------------------------------------
(* Bounds of the model and the input domains.                              *)

MaxLedger == 3      \* rows of the ledger query
MaxDate == 2        \* transaction dates are the days 1 .. MaxDate
MaxEntries == 2     \* transactions entered through add_transaction
Today == 31         \* the day number of date('now')
MaxText == 4        \* characters of a scraped price text
MaxTicks == 1       \* midnights that pass while the trading date is searched
MaxRuns == 2        \* fetch commands in a run of the pipelines
MaxKinds == 2       \* rows of a ledger of arbitrary kind texts

Symbols == {"a", "B"}            \* symbol texts as stored in the ledger
TxTypes == {"BUY", "SELL"}       \* kind texts as stored (lib.rs:234)
Quantities == {0, 1, 2}
Prices == {1, 2}
AssetTypes == {"hisse"}
Dates == 1 .. MaxDate
None == <<>>                     \* Option::None
Some(x) == <<x>>                 \* Option::Some(x)

\* The scenario of the specification's section 8: BUY 10@100, BUY 5@120,
\* SELL 12@150 of one symbol, replayed in that order.
ScenarioRow(kind, qty, price) ==
    [symbol |-> "a", transaction_type |-> kind, quantity |-> qty,
     price |-> price, asset_type |-> "hisse"]

Scenario ==
    <<ScenarioRow("BUY", 10, 100), ScenarioRow("BUY", 5, 120), ScenarioRow("SELL", 12, 150)>>

----------------------------------------------------------------------------
(* Helpers.                                                                *)

\* str::to_uppercase on the texts of the model.
ToUpper(s) ==
    CASE s = "a" -> "A"
      [] s = "b" -> "B"
      [] s = "buy" -> "BUY"
      [] s = "sell" -> "SELL"
      [] s = "alim" -> "ALIM"
      [] s = "usd" -> "USD"
      [] s = "Buy" -> "BUY"
      [] s = "ali_s" -> "ALI_S"
      [] s = "purchase" -> "PURCHASE"
      [] s = "hold" -> "HOLD"
      [] OTHER -> s

\* Iterator::sum over an unordered collection, given as a function to numbers.
RECURSIVE SumFn(_)
SumFn(f) ==
    IF DOMAIN f = {} THEN 0
    ELSE LET k == CHOOSE x \in DOMAIN f : TRUE
         IN  f[k] + SumFn([j \in DOMAIN f \ {k} |-> f[j]])

RECURSIVE SumSeq(_)
SumSeq(s) == IF s = <<>> THEN 0 ELSE Head(s) + SumSeq(Tail(s))

\* queue.iter().map(|item| item.0).sum()
TotalQty(queue) == SumSeq([i \in 1 .. Len(queue) |-> queue[i].qty])

\* queue.iter().map(|item| item.0 * item.1).sum()
TotalCost(queue) == SumSeq([i \in 1 .. Len(queue) |-> queue[i].qty * queue[i].cost])

\* An f64 quotient a / b, kept exact: a fraction, or the IEEE result of a
\* division by zero.
Div(a, b) ==
    IF b = 0
    THEN [num |-> IF a > 0 THEN 1 ELSE IF a < 0 THEN -1 ELSE 0, den |-> 0]
    ELSE IF b < 0 THEN [num |-> -a, den |-> -b] ELSE [num |-> a, den |-> b]

Zero == [num |-> 0, den |-> 1]

\* a <= b for two fractions of positive denominator.
Leq(a, b) == a.num * b.den <= b.num * a.den

----------------------------------------------------------------------------
(* The lot matcher: calculator.rs get_current_holdings, lines 56-84.       *)

\* Mutant of IsBuy: the kind text is compared as it is stored.
IsBuyExact(tx_type) ==
    tx_type \in {"BUY", "ALIM", "ALI_S", "A", "PURCHASE"}

\* calculator.rs:67  the fixed buy synonyms, compared after to_uppercase
IsBuy(tx_type) ==
    ToUpper(tx_type) \in {"BUY", "ALIM", "ALI_S", "A", "PURCHASE"}

\* calculator.rs:53  HashMap::new()
EmptyMap == [k \in {} |-> <<>>]

\* calculator.rs:64  fifo_queues.entry(symbol).or_insert(Vec::new())
Entry(queues, symbol) ==
    IF symbol \in DOMAIN queues THEN queues[symbol] ELSE <<>>

\* Mutant of PushLot: the new lot is put at the head of the queue.
PushLotAtHead(queue, row) ==
    <<[qty |-> row.quantity, cost |-> row.price, atype |-> row.asset_type]>> \o queue

\* calculator.rs:68  queue.push((qty, price, asset_type))
PushLot(queue, row) ==
    Append(queue, [qty |-> row.quantity, cost |-> row.price, atype |-> row.asset_type])

\* Mutant of SellLoop: what is left of an oversell is booked as a short lot.
RECURSIVE SellLoopShort(_, _, _, _)
SellLoopShort(queue, remaining, price, pnl) ==
    IF remaining > 0 /\ queue # <<>>
    THEN LET first == queue[1] IN
         IF first.qty <= remaining
         THEN SellLoopShort(Tail(queue), remaining - first.qty, price,
                            pnl + (price - first.cost) * first.qty)
         ELSE SellLoopShort([queue EXCEPT ![1].qty = first.qty - remaining], 0, price,
                            pnl + (price - first.cost) * remaining)
    ELSE IF remaining > 0
         THEN [queue |-> <<[qty |-> 0 - remaining, cost |-> price, atype |-> "hisse"]>>,
               pnl |-> pnl, remaining |-> 0]
         ELSE [queue |-> queue, pnl |-> pnl, remaining |-> remaining]

\* Mutant of SellLoop: a lot larger than the rest of the sale is removed
\* whole instead of being split.
RECURSIVE SellLoopNoSplit(_, _, _, _)
SellLoopNoSplit(queue, remaining, price, pnl) ==
    IF remaining > 0 /\ queue # <<>>
    THEN LET first == queue[1] IN
         IF first.qty <= remaining
         THEN SellLoopNoSplit(Tail(queue), remaining - first.qty, price,
                              pnl + (price - first.cost) * first.qty)
         ELSE SellLoopNoSplit(Tail(queue), 0, price,
                              pnl + (price - first.cost) * remaining)
    ELSE [queue |-> queue, pnl |-> pnl, remaining |-> remaining]

\* Mutant of SellLoop: the newest lot is consumed first.
RECURSIVE SellLoopNewestFirst(_, _, _, _)
SellLoopNewestFirst(queue, remaining, price, pnl) ==
    IF remaining > 0 /\ queue # <<>>
    THEN LET n == Len(queue)
             last == queue[n] IN
         IF last.qty <= remaining
         THEN SellLoopNewestFirst(SubSeq(queue, 1, n - 1), remaining - last.qty, price,
                                  pnl + (price - last.cost) * last.qty)
         ELSE SellLoopNewestFirst([queue EXCEPT ![n].qty = last.qty - remaining], 0, price,
                                  pnl + (price - last.cost) * remaining)
    ELSE [queue |-> queue, pnl |-> pnl, remaining |-> remaining]

\* calculator.rs:70-82  the while loop of a sale: the state after it
RECURSIVE SellLoop(_, _, _, _)
SellLoop(queue, remaining, price, pnl) ==
    IF remaining > 0 /\ queue # <<>>
    THEN LET first == queue[1] IN
         IF first.qty <= remaining
         THEN SellLoop(Tail(queue), remaining - first.qty, price,
                       pnl + (price - first.cost) * first.qty)
         ELSE SellLoop([queue EXCEPT ![1].qty = first.qty - remaining], 0, price,
                       pnl + (price - first.cost) * remaining)
    ELSE [queue |-> queue, pnl |-> pnl, remaining |-> remaining]

\* Mutant of ApplyRow: what is left of a sale when the queue of its symbol
\* is empty is taken from the lots of another symbol.
ApplyRowSpill(queues, pnl, row) ==
    LET symbol == ToUpper(row.symbol)
        queue == Entry(queues, symbol)
    IN  IF IsBuy(row.transaction_type)
        THEN [queues |-> (symbol :> PushLot(queue, row)) @@ queues, pnl |-> pnl]
        ELSE LET r == SellLoop(queue, row.quantity, row.price, pnl)
                 own == (symbol :> r.queue) @@ queues
                 others == {t \in DOMAIN queues \ {symbol} : queues[t] # <<>>}
             IN  IF r.remaining > 0 /\ others # {}
                 THEN LET t == CHOOSE x \in others : TRUE
                          q == SellLoop(queues[t], r.remaining, row.price, r.pnl)
                      IN  [queues |-> (t :> q.queue) @@ own, pnl |-> q.pnl]
                 ELSE [queues |-> own, pnl |-> r.pnl]

\* calculator.rs:56-83  one iteration of the replay loop
ApplyRow(queues, pnl, row) ==
    LET symbol == ToUpper(row.symbol)
        queue == Entry(queues, symbol)
    IN  IF IsBuy(row.transaction_type)
        THEN [queues |-> (symbol :> PushLot(queue, row)) @@ queues, pnl |-> pnl]
        ELSE LET r == SellLoop(queue, row.quantity, row.price, pnl)
             IN  [queues |-> (symbol :> r.queue) @@ queues, pnl |-> r.pnl]

----------------------------------------------------------------------------
(* The range-filtered matcher: calculator.rs get_realized_pnl_in_range,    *)
(* lines 132-177.  Dates are "YYYY-MM-DD" texts compared as texts, which   *)
(* orders them as days; the model keeps the day number.                    *)

\* Mutant of IsInRange: the end of the window is exclusive.
IsInRangeOpenEnd(tx_date, start, end) ==
    LET ok1 == IF start # None /\ tx_date < start[1] THEN FALSE ELSE TRUE
        ok2 == IF end # None /\ tx_date >= end[1] THEN FALSE ELSE ok1
    IN  ok2

\* calculator.rs:149-158
IsInRange(tx_date, start, end) ==
    LET ok1 == IF start # None /\ tx_date < start[1] THEN FALSE ELSE TRUE
        ok2 == IF end # None /\ tx_date > end[1] THEN FALSE ELSE ok1
    IN  ok2

\* Mutant of RangeSellLoop: a sale outside the window consumes no lot.
RECURSIVE RangeSellLoopSkip(_, _, _, _, _)
RangeSellLoopSkip(queue, remaining, price, pnl, is_in_range) ==
    IF is_in_range /\ remaining > 0 /\ queue # <<>>
    THEN LET first == queue[1] IN
         IF first.qty <= remaining
         THEN RangeSellLoopSkip(Tail(queue), remaining - first.qty, price,
                                pnl + (price - first.cost) * first.qty, is_in_range)
         ELSE RangeSellLoopSkip([queue EXCEPT ![1].qty = first.qty - remaining], 0, price,
                                pnl + (price - first.cost) * remaining, is_in_range)
    ELSE [queue |-> queue, pnl |-> pnl, remaining |-> remaining]

\* Mutant of RangeSellLoop: a split lot is booked with its whole quantity.
RECURSIVE RangeSellLoopWholeLot(_, _, _, _, _)
RangeSellLoopWholeLot(queue, remaining, price, pnl, is_in_range) ==
    IF remaining > 0 /\ queue # <<>>
    THEN LET first == queue[1] IN
         IF first.qty <= remaining
         THEN RangeSellLoopWholeLot(Tail(queue), remaining - first.qty, price,
                  IF is_in_range THEN pnl + (price - first.cost) * first.qty ELSE pnl,
                  is_in_range)
         ELSE RangeSellLoopWholeLot([queue EXCEPT ![1].qty = first.qty - remaining], 0, price,
                  IF is_in_range THEN pnl + (price - first.cost) * first.qty ELSE pnl,
                  is_in_range)
    ELSE [queue |-> queue, pnl |-> pnl, remaining |-> remaining]

\* calculator.rs:160-175  the while loop of a sale
RECURSIVE RangeSellLoop(_, _, _, _, _)
RangeSellLoop(queue, remaining, price, pnl, is_in_range) ==
    IF remaining > 0 /\ queue # <<>>
    THEN LET first == queue[1] IN
         IF first.qty <= remaining
         THEN RangeSellLoop(Tail(queue), remaining - first.qty, price,
                  IF is_in_range THEN pnl + (price - first.cost) * first.qty ELSE pnl,
                  is_in_range)
         ELSE RangeSellLoop([queue EXCEPT ![1].qty = first.qty - remaining], 0, price,
                  IF is_in_range THEN pnl + (price - first.cost) * remaining ELSE pnl,
                  is_in_range)
    ELSE [queue |-> queue, pnl |-> pnl, remaining |-> remaining]

\* calculator.rs:132-176  one iteration of the replay loop
ApplyRowInRange(queues, pnl, row, start, end) ==
    LET symbol == ToUpper(row.symbol)
        queue == Entry(queues, symbol)
    IN  IF IsBuy(row.transaction_type)
        THEN [queues |-> (symbol :> Append(queue, [qty |-> row.quantity, cost |-> row.price]))
                            @@ queues,
              pnl |-> pnl]
        ELSE LET r == RangeSellLoop(queue, row.quantity, row.price, pnl,
                                    IsInRange(row.transaction_date, start, end))
             IN  [queues |-> (symbol :> r.queue) @@ queues, pnl |-> r.pnl]

----------------------------------------------------------------------------
(* Valuation: calculator.rs get_current_holdings, lines 86-115.            *)

\* Mutant of AssetData: a symbol without a row is valued at its first price 1.
AssetDataUnit(cache, symbol) ==
    IF symbol \in DOMAIN cache
    THEN [curr_price |-> cache[symbol].current_price, name |-> cache[symbol].name]
    ELSE [curr_price |-> 1, name |-> symbol]

\* calculator.rs:97-105  the price lookup, 0 and the symbol when no row
AssetData(cache, symbol) ==
    IF symbol \in DOMAIN cache
    THEN [curr_price |-> cache[symbol].current_price, name |-> cache[symbol].name]
    ELSE [curr_price |-> 0, name |-> symbol]

\* Mutant of Held: the test of the total quantity is missing.
HeldNonEmpty(queue) == queue # <<>>

\* calculator.rs:88-91  the two `continue` guards
Held(queue) == queue # <<>> /\ ~(TotalQty(queue) <= 0)

\* calculator.rs:93-114
MakeHolding(symbol, queue, cache) ==
    LET total_qty == TotalQty(queue)
        total_cost == TotalCost(queue)
        a == AssetData(cache, symbol)
        value == total_qty * a.curr_price
        pnl == value - total_cost
    IN  [symbol |-> symbol, name |-> a.name, asset_type |-> queue[1].atype,
         quantity |-> total_qty, avg_cost |-> Div(total_cost, total_qty),
         current_price |-> a.curr_price, value |-> value, pnl |-> pnl,
         pnl_pct |-> IF total_cost > 0 THEN Div(pnl * 100, total_cost) ELSE Zero]

\* calculator.rs:86-115
BuildHoldings(queues, cache) ==
    {MakeHolding(s, queues[s], cache) : s \in {k \in DOMAIN queues : Held(queues[k])}}

\* calculator.rs:44-118  the whole of get_current_holdings on a ledger
RECURSIVE ReplayAll(_, _, _)
ReplayAll(rs, queues, pnl) ==
    IF rs = <<>> THEN [queues |-> queues, pnl |-> pnl]
    ELSE LET r == ApplyRow(queues, pnl, Head(rs))
         IN  ReplayAll(Tail(rs), r.queues, r.pnl)

GetCurrentHoldings(ledger, cache) ==
    LET m == ReplayAll(ledger, EmptyMap, 0)
    IN  [holdings |-> BuildHoldings(m.queues, cache), realized_pnl |-> m.pnl]

----------------------------------------------------------------------------
(* The summary: calculator.rs get_portfolio_summary, lines 182-270.        *)

\* Mutant of UsdRate: the sanity clamp is missing.
UsdRateNoClamp(cache) ==
    IF "USD" \in DOMAIN cache THEN cache["USD"].current_price ELSE 1

\* calculator.rs:189-197  the cached USD price, 1 without a row, 1 above 500
UsdRate(cache) ==
    LET usd_rate == IF "USD" \in DOMAIN cache THEN cache["USD"].current_price ELSE 1
    IN  IF usd_rate > 500 THEN 1 ELSE usd_rate

\* calculator.rs:198
TotalValueUsd(total_value, usd_rate) ==
    IF usd_rate > 0 THEN Div(total_value, usd_rate) ELSE Zero

\* A last_updated text is ordered as a text: by its day, then by the
\* minute of the day when the character after the day is the same,
\* character after the day (' ' of datetime('now') before 'T' of RFC 3339).
TextLeq(a, b) ==
    \/ a.day < b.day
    \/ a.day = b.day /\ a.sep = " " /\ b.sep = "T"
    \/ a.day = b.day /\ a.sep = b.sep /\ a.minute <= b.minute

\* calculator.rs:212-217  SELECT MAX(last_updated) FROM assets
MaxLastUpdated(cache) ==
    IF DOMAIN cache = {} THEN None
    ELSE Some(CHOOSE t \in {cache[k].last_updated : k \in DOMAIN cache} :
                \A k \in DOMAIN cache : TextLeq(cache[k].last_updated, t))

\* db.rs:60-72  a row of portfolio_snapshots
SnapshotRow(date, tl, usd) ==
    [snapshot_date |-> date, total_value_tl |-> tl, total_value_usd |-> usd]

\* Mutant of SaveSnapshot: a plain INSERT.
SaveSnapshotInsert(store, today, total_val, total_usd) ==
    store \cup {SnapshotRow(today, total_val, total_usd)}

\* Mutant of SaveSnapshot: the store is emptied before the day's row is written.
SaveSnapshotTruncate(store, today, total_val, total_usd) ==
    {SnapshotRow(today, total_val, total_usd)}

\* calculator.rs:239-255  the upsert of the day's snapshot
SaveSnapshot(store, today, total_val, total_usd) ==
    {r \in store : r.snapshot_date # today} \cup {SnapshotRow(today, total_val, total_usd)}

\* SELECT total_value_tl ... WHERE snapshot_date <= ? ORDER BY snapshot_date
\* DESC LIMIT 1 (calculator.rs:259, 275, 289): None without such a row
LatestValue(store, day) ==
    LET older == {r \in store : r.snapshot_date <= day}
    IN  IF older = {} THEN None
        ELSE Some((CHOOSE r \in older :
                      \A q \in older : q.snapshot_date <= r.snapshot_date).total_value_tl)

\* calculator.rs:258-270  the change against the latest snapshot of
\* date('now', '-N days') or before
GetPerformanceChange(store, now, current_val, days_ago) ==
    LET row == LatestValue(store, now - days_ago)
    IN  IF row = None THEN <<0, Zero>>
        ELSE LET old_val == row[1]
             IN  IF old_val > 0
                 THEN <<current_val - old_val, Div((current_val - old_val) * 100, old_val)>>
                 ELSE <<0, Zero>>

\* SELECT total_value_tl ... ORDER BY snapshot_date DESC LIMIT 1
\* (calculator.rs:281): None for an empty table
LatestOfAll(store) ==
    IF store = {} THEN None
    ELSE Some((CHOOSE r \in store :
                  \A q \in store : q.snapshot_date <= r.snapshot_date).total_value_tl)

\* Mutant of GetRangePerformance: an absent start is the earliest snapshot.
GetRangePerformanceEarliest(store, start, end) ==
    LET Value(opt) == IF opt = None THEN 0 ELSE opt[1]
        end_val == IF end # None THEN Value(LatestValue(store, end[1]))
                   ELSE Value(LatestOfAll(store))
        start_val == IF start # None THEN Value(LatestValue(store, start[1]))
                     ELSE IF store = {} THEN 0
                     ELSE (CHOOSE r \in store :
                              \A q \in store : r.snapshot_date <= q.snapshot_date).total_value_tl
    IN  IF start_val > 0
        THEN <<end_val - start_val, Div((end_val - start_val) * 100, start_val)>>
        ELSE <<0, Zero>>

\* calculator.rs:272-305
GetRangePerformance(store, start, end) ==
    LET Value(opt) == IF opt = None THEN 0 ELSE opt[1]
        end_val == IF end # None THEN Value(LatestValue(store, end[1]))
                   ELSE Value(LatestOfAll(store))
        start_val == IF start # None THEN Value(LatestValue(store, start[1])) ELSE 0
    IN  IF start_val > 0
        THEN <<end_val - start_val, Div((end_val - start_val) * 100, start_val)>>
        ELSE <<0, Zero>>

\* calculator.rs:202-209  the symbols that may come first and last after the
\* sort by pnl_pct descending (ties keep the HashMap's order)
TopSymbols(hs) == {h.symbol : h \in {x \in hs : \A y \in hs : Leq(y.pnl_pct, x.pnl_pct)}}

WorstSymbols(hs) == {h.symbol : h \in {x \in hs : \A y \in hs : Leq(x.pnl_pct, y.pnl_pct)}}

\* calculator.rs:182-237  the summary returned, given the snapshots as they
\* are after save_snapshot and the two ends of the sorted holdings
MakeSummary(ledger, cache, store, now, top, worst) ==
    LET r == GetCurrentHoldings(ledger, cache)
        hs == r.holdings
        total_value == SumFn([h \in hs |-> h.value])
        total_pnl == SumFn([h \in hs |-> h.pnl])
        total_cost == SumFn([h \in hs |-> (h.quantity * h.avg_cost.num) \div h.avg_cost.den])
        daily == GetPerformanceChange(store, now, total_value, 1)
        weekly == GetPerformanceChange(store, now, total_value, 7)
        monthly == GetPerformanceChange(store, now, total_value, 30)
    IN  [total_value |-> total_value,
         total_value_usd |-> TotalValueUsd(total_value, UsdRate(cache)),
         unrealized_pnl |-> total_pnl,
         realized_pnl |-> r.realized_pnl,
         total_return |-> total_pnl + r.realized_pnl,
         roi_pct |-> IF total_cost > 0 THEN Div(total_pnl * 100, total_cost) ELSE Zero,
         holdings_count |-> Cardinality(hs),
         top_performer |-> top,
         worst_performer |-> worst,
         last_updated |-> MaxLastUpdated(cache),
         daily_change |-> daily[1], daily_change_pct |-> daily[2],
         weekly_change |-> weekly[1], weekly_change_pct |-> weekly[2],
         monthly_change |-> monthly[1], monthly_change_pct |-> monthly[2]]

----------------------------------------------------------------------------
(* Numeric normalization: scraper.rs lines 103-105 and parse_tr_float,     *)
(* lines 285-298.  A text is a sequence of characters; a parsed number is  *)
(* the exact decimal fraction [num, den].                                  *)

Digits == {"0", "1", "2", "3", "4", "5", "6", "7", "8", "9"}

DigitVal(c) ==
    CASE c = "0" -> 0 [] c = "1" -> 1 [] c = "2" -> 2 [] c = "3" -> 3 [] c = "4" -> 4
      [] c = "5" -> 5 [] c = "6" -> 6 [] c = "7" -> 7 [] c = "8" -> 8 [] c = "9" -> 9

RECURSIVE DigitsValue(_)
DigitsValue(ds) ==
    IF ds = <<>> THEN 0
    ELSE DigitsValue(SubSeq(ds, 1, Len(ds) - 1)) * 10 + DigitVal(ds[Len(ds)])

RECURSIVE Pow10(_)
Pow10(n) == IF n = 0 THEN 1 ELSE 10 * Pow10(n - 1)

\* str::contains(char)
Contains(text, c) == \E i \in 1 .. Len(text) : text[i] = c

\* str::rfind(char), for a text that contains the character
RFind(text, c) == CHOOSE i \in 1 .. Len(text) : text[i] = c /\ \A j \in i + 1 .. Len(text) : text[j] # c

\* str::replace(c, "")
Remove(text, c) == SelectSeq(text, LAMBDA x : x # c)

\* str::replace(c, d)
Replace(text, c, d) == [i \in 1 .. Len(text) |-> IF text[i] = c THEN d ELSE text[i]]

\* str::trim
RECURSIVE Trim(_)
Trim(text) ==
    IF text = <<>> THEN text
    ELSE IF Head(text) = " " THEN Trim(Tail(text))
    ELSE IF text[Len(text)] = " " THEN Trim(SubSeq(text, 1, Len(text) - 1))
    ELSE text

\* str::parse::<f64> on a text of digits, dots and signs: an optional sign,
\* then digits with at most one dot and at least one digit; anything else
\* is an error (None).
ParseF64(text) ==
    LET signed == text # <<>> /\ Head(text) \in {"+", "-"}
        body == IF signed THEN Tail(text) ELSE text
        dots == {i \in 1 .. Len(body) : body[i] = "."}
        ok == /\ \A i \in 1 .. Len(body) : body[i] \in Digits \cup {"."}
              /\ Cardinality(dots) <= 1
              /\ \E i \in 1 .. Len(body) : body[i] \in Digits
        dot == IF dots = {} THEN Len(body) + 1 ELSE CHOOSE i \in dots : TRUE
        int == SubSeq(body, 1, dot - 1)
        frac == SubSeq(body, dot + 1, Len(body))
        mag == DigitsValue(int \o frac)
    IN  IF ~ok THEN None
        ELSE Some([num |-> IF signed /\ Head(text) = "-" THEN 0 - mag ELSE mag,
                   den |-> Pow10(Len(frac))])

\* Mutant of ParseTrFloat: with both separators the leftmost one is taken
\* for the decimal separator.
ParseTrFloatLeftmost(val) ==
    LET clean == Trim(val) IN
    IF Contains(clean, ",") /\ Contains(clean, ".")
    THEN IF RFind(clean, ",") < RFind(clean, ".")
         THEN ParseF64(Replace(Remove(clean, "."), ",", "."))
         ELSE ParseF64(Remove(clean, ","))
    ELSE IF Contains(clean, ",")
    THEN ParseF64(Replace(clean, ",", "."))
    ELSE ParseF64(clean)

\* scraper.rs:285-298
ParseTrFloat(val) ==
    LET clean == Trim(val) IN
    IF Contains(clean, ",") /\ Contains(clean, ".")
    THEN IF RFind(clean, ",") > RFind(clean, ".")
         THEN ParseF64(Replace(Remove(clean, "."), ",", "."))
         ELSE ParseF64(Remove(clean, ","))
    ELSE IF Contains(clean, ",")
    THEN ParseF64(Replace(clean, ",", "."))
    ELSE ParseF64(clean)

\* scraper.rs:104  the characters kept of the price text
CleanPrice(p_t) == SelectSeq(p_t, LAMBDA c : c \in Digits \/ c = "," \/ c = ".")

\* Option::unwrap_or(0.0)
UnwrapOrZero(opt) == IF opt = None THEN Zero ELSE opt[1]

\* scraper.rs:104-105
ParsePriceText(p_t) == UnwrapOrZero(ParseTrFloat(CleanPrice(p_t)))

----------------------------------------------------------------------------
(* What the claims are stated with: the ledger read on its own, without    *)
(* the matcher.                                                            *)

Key(row) == ToUpper(row.symbol)

Keys == {ToUpper(x) : x \in Symbols}

Min(a, b) == IF a < b THEN a ELSE b

Max(a, b) == IF a > b THEN a ELSE b

\* The sum of the first i entries of a sequence of quantities.
Cum(qs, i) == SumSeq(SubSeq(qs, 1, i))

\* The part of the i-th of the quantities qs that a sale of q units takes
\* when they are used up oldest first.
Taken(qs, i, q) == Max(0, Min(qs[i], q - Cum(qs, i - 1)))

\* The i-th quantity is used up by a sale of q units: some of the sale is
\* still open when its turn comes, and it fits into what is open.
UsedUp(qs, i, q) == Cum(qs, i - 1) < q /\ Cum(qs, i) <= q

BuyQtys(buys) == [j \in 1 .. Len(buys) |-> buys[j].quantity]

LotQtys(queue) == [j \in 1 .. Len(queue) |-> queue[j].qty]

\* The lots a sale of q units leaves of the purchases `buys`.
LotsLeft(buys, q) ==
    LET n == Len(buys)
        qs == BuyQtys(buys)
        used == Cardinality({i \in 1 .. n : UsedUp(qs, i, q)})
    IN  [j \in 1 .. n - used |->
            [qty |-> qs[used + j] - Taken(qs, used + j, q),
             cost |-> buys[used + j].price,
             atype |-> buys[used + j].asset_type]]

\* Purchases of one symbol followed by one sale of no more than was bought.
BuysThenSale(rs) ==
    /\ Len(rs) >= 2
    /\ \A i \in 1 .. Len(rs) - 1 :
          rs[i].transaction_type = "BUY" /\ Key(rs[i]) = Key(rs[Len(rs)])
    /\ rs[Len(rs)].transaction_type = "SELL"
    /\ rs[Len(rs)].quantity <= Cum(BuyQtys(rs), Len(rs) - 1)

\* Quantity bought minus quantity sold of symbol s in the first k rows.
Net(rs, k, s) ==
    SumSeq([i \in 1 .. k |->
              IF Key(rs[i]) # s THEN 0
              ELSE IF rs[i].transaction_type = "BUY" THEN rs[i].quantity
              ELSE 0 - rs[i].quantity])

\* No sale of symbol s is larger than what is held when it is replayed.
NoOversell(rs, s) ==
    \A k \in 1 .. Len(rs) :
        (Key(rs[k]) = s /\ rs[k].transaction_type = "SELL")
            => rs[k].quantity <= Net(rs, k - 1, s)

\* The sale `row` takes no part of a lot of `held` below the lot's cost.
NoLoss(held, row) ==
    \A i \in 1 .. Len(held) :
        Taken(LotQtys(held), i, row.quantity) > 0 => row.price >= held[i].cost

\* The lots of a queue without their asset type.
Bare(queue) == [i \in 1 .. Len(queue) |-> [qty |-> queue[i].qty, cost |-> queue[i].cost]]

----------------------------------------------------------------------------
(* Specification Spec: get_current_holdings over an arbitrary ledger.      *)

LedgerRows ==
    [symbol : Symbols, transaction_type : TxTypes, quantity : Quantities,
     price : Prices, asset_type : AssetTypes]

\* scraper.rs:127  Local::now().to_rfc3339(): the local day, 'T', the time
Rfc3339(day, min) == [day |-> day, sep |-> "T", minute |-> min]

\* lib.rs:246  SQLite's datetime('now'): the UTC day, ' ', the time
SqliteNow(day, min) == [day |-> day, sep |-> " ", minute |-> min]

\* scraper.rs:131-132  a row as a fetcher inserts it
AssetRow(name, atype, price) ==
    [name |-> name, asset_type |-> atype, current_price |-> price,
     day_change |-> 0, last_updated |-> Rfc3339(Today, 0)]

\* The asset cache the runs start from: one symbol priced, the other absent.
AssetCaches == {"A" :> AssetRow("Alpha", "hisse", 3)}

\* The rows the query may hold after `done`: any row of the input domains,
\* and the scenario's next row while the scenario is being replayed.
NextRows(done) ==
    LedgerRows \cup
    (IF Len(done) < Len(Scenario) /\ done = SubSeq(Scenario, 1, Len(done))
     THEN {Scenario[Len(done) + 1]} ELSE {})

\* The range matcher before its first row, with no window.
RangeIdle ==
    /\ start_date = None
    /\ end_date = None
    /\ r_queues = EmptyMap
    /\ r_pnl = 0
    /\ r_date = 0
    /\ r_count = 0
    /\ profit_ok = TRUE
    /\ range_perf = None

\* calculator.rs:53-54
HoldingsStart ==
    /\ rows = <<>>
    /\ fifo_queues = EmptyMap
    /\ realized_pnl = 0
    /\ holdings = {}
    /\ pc = "replay"

\* The computations that may run side by side.
Procs == {1, 2}

\* A computation that is not running.
IdleCalc == [pc |-> "idle", ledger |-> <<>>, cache |-> EmptyMap, top |-> "-", worst |-> "-",
             day |-> 0]

\* No command of the summary specification has run.
SummaryIdle ==
    /\ calc = [p \in Procs |-> IdleCalc]
    /\ transactions = <<>>
    /\ snapshots = {}
    /\ local_today = Today
    /\ utc_today = Today
    /\ summary = None

\* No price text has been scraped.
ParseIdle ==
    /\ price_text = <<>>
    /\ parsed_price = None

\* update_tefas_funds has not been called.
ProbeIdle ==
    /\ clock = Today
    /\ ticks = 0
    /\ probe_i = 0
    /\ probes = <<>>
    /\ valid_date_str = None
    /\ probe_pc = "idle"

\* No fetch command has been called and no source is reachable.
PipelineIdle ==
    /\ source = EmptyMap
    /\ minute = 0
    /\ fetch_pc = "idle"
    /\ update_type = "general"
    /\ forced = FALSE
    /\ requested = {}
    /\ all_assets = <<>>
    /\ tx = None
    /\ before = EmptyMap
    /\ returned = None
    /\ last_commit = None
    /\ runs = 0

FetchIdle == ParseIdle /\ ProbeIdle /\ PipelineIdle

Init ==
    /\ HoldingsStart
    /\ assets \in AssetCaches
    /\ RangeIdle
    /\ SummaryIdle
    /\ FetchIdle

\* calculator.rs:56-84  the loop takes the next row of the query result
ReplayRow ==
    /\ pc = "replay"
    /\ Len(rows) < MaxLedger
    /\ \E row \in NextRows(rows) :
         LET r == ApplyRow(fifo_queues, realized_pnl, row) IN
         /\ rows' = Append(rows, row)
         /\ fifo_queues' = r.queues
         /\ realized_pnl' = r.pnl
    /\ UNCHANGED <<holdings, assets, pc>>
    /\ UNCHANGED <<rangeVars, summaryVars, fetchVars>>

\* calculator.rs:86-117  the rows are exhausted: value the open lots and return
ReturnHoldings ==
    /\ pc = "replay"
    /\ holdings' = BuildHoldings(fifo_queues, assets)
    /\ pc' = "done"
    /\ UNCHANGED <<rows, fifo_queues, realized_pnl, assets>>
    /\ UNCHANGED <<rangeVars, summaryVars, fetchVars>>

Next == ReplayRow \/ ReturnHoldings

Spec == Init /\ [][Next]_vars

\* The step replays a row: the row.
Replayed == rows'[Len(rows')]

----------------------------------------------------------------------------
(* Specification SpecRange: get_realized_pnl_in_range and                  *)
(* get_current_holdings replaying the same query result side by side, for  *)
(* every window.  The rows come in the order of the query, dates ascending.*)

Options == {None} \cup {Some(d) : d \in Dates}

RangeRows ==
    [transaction_date : Dates, symbol : Symbols, transaction_type : TxTypes,
     quantity : Quantities, price : Prices, asset_type : AssetTypes]

InitRange ==
    /\ HoldingsStart
    /\ assets \in AssetCaches
    /\ start_date \in Options
    /\ end_date \in Options
    /\ r_queues = EmptyMap
    /\ r_pnl = 0
    /\ r_date = 0
    /\ r_count = 0
    /\ profit_ok = TRUE
    /\ range_perf = None
    /\ SummaryIdle
    /\ FetchIdle

\* calculator.rs:56-84 and 132-177  both loops take the next row
ReplayBoth ==
    /\ r_count < MaxLedger
    /\ \E row \in RangeRows :
         LET h == ApplyRow(fifo_queues, realized_pnl, row)
             r == ApplyRowInRange(r_queues, r_pnl, row, start_date, end_date)
         IN  /\ row.transaction_date >= r_date
             /\ fifo_queues' = h.queues
             /\ realized_pnl' = h.pnl
             /\ r_queues' = r.queues
             /\ r_pnl' = r.pnl
             /\ r_date' = row.transaction_date
             /\ profit_ok' = (profit_ok /\
                    (row.transaction_type = "BUY"
                        \/ NoLoss(Entry(fifo_queues, Key(row)), row)))
    /\ r_count' = r_count + 1
    /\ UNCHANGED <<rows, holdings, assets, pc, start_date, end_date, range_perf>>
    /\ UNCHANGED <<summaryVars, fetchVars>>

NextRange == ReplayBoth

SpecRange == InitRange /\ [][NextRange]_vars

----------------------------------------------------------------------------
(* Specification SpecSummary: the commands add_transaction (lib.rs) and    *)
(* get_summary over the stores.  The asset cache starts as a fetcher may    *)
(* have left it; the ledger starts empty and grows by add_transaction.     *)

\* What add_transaction is called with (lib.rs:210-219).
NewTransactions ==
    [date : {1}, symbol : {"a", "USD"}, name : {"Entered"}, asset_type : {"hisse"},
     transaction_type : {"buy", "sell"}, quantity : {2}, price : {0, 2}]

SummaryCaches ==
    {EmptyMap}
    \cup {("USD" :> AssetRow("Dolar", "doviz", p)) @@ ("A" :> AssetRow("Alpha", "hisse", 3)) :
              p \in {30, 500, 501, 1000}}

SnapshotStores ==
    {{},
     {SnapshotRow(Today - 1, 4, Div(4, 30))},
     {SnapshotRow(Today - 30, 6, Div(6, 30))},
     {SnapshotRow(Today - 7, 0, Zero), SnapshotRow(Today - 30, 6, Div(6, 30))}}

InitSummary ==
    /\ HoldingsStart
    /\ RangeIdle
    /\ assets \in SummaryCaches
    /\ transactions = <<>>
    /\ snapshots \in SnapshotStores
    /\ utc_today = Today
    /\ local_today \in {Today - 1, Today, Today + 1}
    /\ summary = None
    /\ calc = [p \in Procs |-> IdleCalc]
    /\ FetchIdle

\* Mutant of EnsureAsset: ON CONFLICT(symbol) DO NOTHING.
EnsureAssetKeepName(cache, t, now) ==
    IF t.symbol \in DOMAIN cache
    THEN cache
    ELSE (t.symbol :> [name |-> t.name, asset_type |-> t.asset_type,
                       current_price |-> t.price, day_change |-> 0,
                       last_updated |-> SqliteNow(now, 0)]) @@ cache

\* lib.rs:244-254  INSERT INTO assets ... ON CONFLICT(symbol) DO UPDATE SET name
EnsureAsset(cache, t, now) ==
    IF t.symbol \in DOMAIN cache
    THEN [cache EXCEPT ![t.symbol].name = t.name]
    ELSE (t.symbol :> [name |-> t.name, asset_type |-> t.asset_type,
                       current_price |-> t.price, day_change |-> 0,
                       last_updated |-> SqliteNow(now, 0)]) @@ cache

\* lib.rs:227-241  the row inserted; it sorts after the rows already there
\* (same transaction_date, later created_at)
NewRow(t) ==
    [transaction_date |-> t.date, asset_type |-> t.asset_type, symbol |-> t.symbol,
     transaction_type |-> IF t.transaction_type = "buy" THEN "BUY" ELSE "SELL",
     quantity |-> t.quantity, price |-> t.price]

\* lib.rs:221-257
AddTransaction ==
    /\ Len(transactions) < MaxEntries
    /\ \E t \in NewTransactions :
         /\ transactions' = Append(transactions, NewRow(t))
         /\ assets' = EnsureAsset(assets, t, utc_today)
    /\ summary' = None
    /\ UNCHANGED <<snapshots, local_today, utc_today, calc>>
    /\ UNCHANGED <<rows, fifo_queues, realized_pnl, holdings, pc, rangeVars, fetchVars>>

\* calculator.rs:182-237 with save_snapshot and get_performance_change
GetPortfolioSummary ==
    LET hs == GetCurrentHoldings(transactions, assets).holdings
        total_value == SumFn([h \in hs |-> h.value])
        total_usd == TotalValueUsd(total_value, UsdRate(assets))
        saved == SaveSnapshot(snapshots, local_today, total_value, total_usd)
    IN  /\ \E top \in (IF hs = {} THEN {"-"} ELSE TopSymbols(hs)) :
          \E worst \in (IF hs = {} THEN {"-"} ELSE WorstSymbols(hs)) :
             /\ Cardinality(hs) >= 2 => top # worst
             /\ summary' = Some(MakeSummary(transactions, assets, saved, utc_today, top, worst))
        /\ snapshots' = saved
        /\ UNCHANGED <<transactions, assets, local_today, utc_today, calc>>
        /\ UNCHANGED <<rows, fifo_queues, realized_pnl, holdings, pc, rangeVars, fetchVars>>

NextSummary == AddTransaction \/ GetPortfolioSummary

SpecSummary == InitSummary /\ [][NextSummary]_vars

----------------------------------------------------------------------------
(* Specification SpecParse: update_general_assets turns the price text of  *)
(* one scraped row into a number (scraper.rs lines 103-105).               *)

\* The characters a price element is made of here.
TextChars == {"0", "1", "5", ",", ".", " ", "-"}

Chars(n) == [1 .. n -> TextChars]

\* The texts of the specification's examples.
ExampleTexts ==
    {<<"1", ".", "2", "3", "4", ",", "5", "6">>,
     <<"1", ",", "2", "3", "4", ".", "5", "6">>,
     <<"1", "2", ",", "5">>,
     <<"1", "2", ".", "5">>}

PriceTexts == UNION {Chars(n) : n \in 0 .. MaxText} \cup ExampleTexts

\* No other command has run.
OthersIdle ==
    /\ HoldingsStart
    /\ assets = EmptyMap
    /\ RangeIdle
    /\ SummaryIdle

InitParse ==
    /\ OthersIdle
    /\ PipelineIdle
    /\ ProbeIdle
    /\ price_text \in PriceTexts
    /\ parsed_price = None

\* scraper.rs:104-105
ParsePrice ==
    /\ parsed_price = None
    /\ parsed_price' = Some(ParsePriceText(price_text))
    /\ UNCHANGED <<price_text, probeVars, pipelineVars, holdingsVars, rangeVars, summaryVars>>

NextParse == ParsePrice

SpecParse == InitParse /\ [][NextParse]_vars

----------------------------------------------------------------------------
(* Specification SpecProbe: update_tefas_funds searches the trading date   *)
(* (scraper.rs lines 180-208).  A date is a day number; day 1 is a Monday. *)
(* Local::now() is read anew in every iteration, so a midnight may pass    *)
(* between two of them.                                                    *)

\* scraper.rs:183  for i in 0..5
ProbeDays == 5

\* chrono's %u of a date: Monday 1 .. Sunday 7
Weekday(d) == ((d - 1) % 7) + 1

\* Mutant of IsWeekend: only the Sunday is skipped.
IsWeekendSundayOnly(target_dt) == Weekday(target_dt) > 6

\* scraper.rs:186
IsWeekend(target_dt) == Weekday(target_dt) > 5

\* scraper.rs:192-195  what the query for fontip YAT comes back with: a
\* non-empty data array, an empty one, or no usable response
Answers == {"data", "empty", "error"}

\* The command may begin on any day of a week.
StartClocks == 8 .. 14

\* What an iteration did.
Probe(i, now, answer) == [i |-> i, now |-> now, date |-> now - i, answer |-> answer]

InitProbe ==
    /\ OthersIdle
    /\ PipelineIdle
    /\ ParseIdle
    /\ clock \in StartClocks
    /\ ticks = 0
    /\ probe_i = 0
    /\ probes = <<>>
    /\ valid_date_str = None
    /\ probe_pc = "probe"

\* The local date changes while the command runs.
Midnight ==
    /\ probe_pc = "probe"
    /\ ticks < MaxTicks
    /\ clock' = clock + 1
    /\ ticks' = ticks + 1
    /\ UNCHANGED <<probe_i, probes, valid_date_str, probe_pc>>
    /\ UNCHANGED <<parseVars, pipelineVars, holdingsVars, rangeVars, summaryVars>>

\* scraper.rs:184-186  the candidate is a weekend day: continue
SkipWeekend ==
    /\ probe_pc = "probe"
    /\ probe_i < ProbeDays
    /\ IsWeekend(clock - probe_i)
    /\ probes' = Append(probes, Probe(probe_i, clock, "skipped"))
    /\ probe_i' = probe_i + 1
    /\ UNCHANGED <<clock, ticks, valid_date_str, probe_pc>>
    /\ UNCHANGED <<parseVars, pipelineVars, holdingsVars, rangeVars, summaryVars>>

\* scraper.rs:184-203  the candidate is queried; a non-empty data array
\* sets valid_date_str and breaks
ProbeDate ==
    /\ probe_pc = "probe"
    /\ probe_i < ProbeDays
    /\ ~IsWeekend(clock - probe_i)
    /\ \E answer \in Answers :
         /\ probes' = Append(probes, Probe(probe_i, clock, answer))
         /\ IF answer = "data"
            THEN /\ valid_date_str' = Some(clock - probe_i)
                 /\ probe_pc' = "found"
                 /\ probe_i' = probe_i
            ELSE /\ probe_i' = probe_i + 1
                 /\ UNCHANGED <<valid_date_str, probe_pc>>
    /\ UNCHANGED <<clock, ticks>>
    /\ UNCHANGED <<parseVars, pipelineVars, holdingsVars, rangeVars, summaryVars>>

\* scraper.rs:206-208  the loop ran out with valid_date_str empty: return
ProbeNone ==
    /\ probe_pc = "probe"
    /\ probe_i = ProbeDays
    /\ probe_pc' = "none"
    /\ UNCHANGED <<clock, ticks, probe_i, probes, valid_date_str>>
    /\ UNCHANGED <<parseVars, pipelineVars, holdingsVars, rangeVars, summaryVars>>

NextProbe == Midnight \/ SkipWeekend \/ ProbeDate \/ ProbeNone

SpecProbe == InitProbe /\ [][NextProbe]_vars

----------------------------------------------------------------------------
(* The fetch pipelines: scraper.rs update_general_assets (lines 26-151)    *)
(* and update_tefas_funds (lines 153-283).  The price and change texts of  *)
(* the pages denote whole numbers, kept as integers in the assets table.   *)

\* scraper.rs:42-47  the sources in the order of the requests
Urls == <<"doviz", "emtia", "hisse", "kripto">>

\* scraper.rs:170
FundTypes == <<"YAT", "EMK", "BYF", "GYF", "GSYF">>

\* scraper.rs:86-90  the first five alphanumeric characters, upper-cased
GeneratedSymbol(n) ==
    CASE n = "Dolar" -> "DOLAR"
      [] n = "Gram Altin" -> "GRAMA"
      [] n = "Alpha" -> "ALPHA"
      [] n = "Bitcoin" -> "BITCO"
      [] OTHER -> ToUpper(n)

\* scraper.rs:96  format!("{}-C", sym)
WithC(sym) ==
    CASE sym = "BTC" -> "BTC-C"
      [] sym = "BTC-C" -> "BTC-C-C"
      [] sym = "BITCO" -> "BITCO-C"
      [] OTHER -> sym

\* scraper.rs:99-101  a doubled suffix is made single
FixSuffix(sym) == IF sym = "BTC-C-C" THEN "BTC-C" ELSE sym

\* scraper.rs:108  the characters kept of the change text
CleanPerc(pt) ==
    SelectSeq(pt, LAMBDA c : c \in Digits \/ c = "," \/ c = "." \/ c = "-" \/ c = "+")

\* The f64 of a fraction that is a whole number.
Whole(x) == IF x.num >= 0 THEN x.num \div x.den ELSE 0 - ((0 - x.num) \div x.den)

\* scraper.rs:78-117  the records one row of a page adds to all_assets
ScrapeRow(row, asset_type) ==
    IF row.name = None \/ row.price_text = None THEN <<>>
    ELSE LET n == row.name[1]
             symbol == IF row.symbol = None \/ row.symbol = Some("")
                       THEN GeneratedSymbol(n) ELSE row.symbol[1]
             sym == FixSuffix(IF asset_type = "kripto" THEN WithC(symbol) ELSE symbol)
             price == Whole(ParsePriceText(row.price_text[1]))
             day_change == IF row.perc_text # None
                           THEN Whole(UnwrapOrZero(ParseTrFloat(CleanPerc(row.perc_text[1]))))
                           ELSE 0
         IN  IF price > 0
             THEN <<[symbol |-> sym, name |-> n, asset_type |-> asset_type,
                     price |-> price, day_change |-> day_change]>>
             ELSE <<>>

\* Every element of a sequence mapped to a sequence, the results joined.
RECURSIVE FlatMap(_, _)
FlatMap(Op(_), seq) == IF seq = <<>> THEN <<>> ELSE Op(Head(seq)) \o FlatMap(Op, Tail(seq))

\* Mutant of GeneralAssets: one failed request fails them all.
GeneralAssetsFailFast(responses) ==
    LET OfUrl(asset_type) ==
            IF \E u \in DOMAIN responses : responses[u] = None THEN <<>>
            ELSE LET OfRow(row) == ScrapeRow(row, asset_type)
                 IN  FlatMap(OfRow, responses[asset_type][1])
    IN  FlatMap(OfUrl, Urls)

\* scraper.rs:66-119  all_assets from the responses; a failed request
\* (None) is flattened away
GeneralAssets(responses) ==
    LET OfUrl(asset_type) ==
            IF responses[asset_type] = None THEN <<>>
            ELSE LET OfRow(row) == ScrapeRow(row, asset_type)
                 IN  FlatMap(OfRow, responses[asset_type][1])
    IN  FlatMap(OfUrl, Urls)

\* A field of a JSON object is None when the object has no such member,
\* Some(n) when it holds the number n, and one of these when it holds
\* something else.
JsonNull == <<"null", "">>

JsonString(text) == <<"string", text>>

\* serde_json Value::as_f64: the number of a member that holds one
AsF64(v) == IF Len(v) = 1 THEN v ELSE None

\* Mutant of PriceRaw: the first field that holds a positive number.
PriceRawFirstPositive(fund) ==
    LET Positive(v) == AsF64(v) # None /\ AsF64(v)[1] > 0 IN
    IF Positive(fund.FIYAT) THEN AsF64(fund.FIYAT)
    ELSE IF Positive(fund.SONFIYAT) THEN AsF64(fund.SONFIYAT)
    ELSE IF Positive(fund.BORSABULTENFIYAT) THEN AsF64(fund.BORSABULTENFIYAT)
    ELSE AsF64(fund.FIYAT)

\* scraper.rs:238-240  FIYAT, else SONFIYAT, else BORSABULTENFIYAT
PriceRaw(fund) ==
    IF AsF64(fund.FIYAT) # None THEN AsF64(fund.FIYAT)
    ELSE IF AsF64(fund.SONFIYAT) # None THEN AsF64(fund.SONFIYAT)
    ELSE AsF64(fund.BORSABULTENFIYAT)

\* Mutant of FundRow: the test of the price is missing.
FundRowAnyPrice(fund) ==
    LET price_raw == PriceRaw(fund) IN
    IF price_raw # None
    THEN <<[symbol |-> ToUpper(fund.FONKODU), name |-> fund.FONUNVAN, asset_type |-> "fon",
            price |-> price_raw[1], day_change |-> fund.GUNLUKGETIRI]>>
    ELSE <<>>

\* scraper.rs:235-249  the records one fund adds to all_funds
FundRow(fund) ==
    LET price_raw == PriceRaw(fund) IN
    IF price_raw # None /\ price_raw[1] > 0
    THEN <<[symbol |-> ToUpper(fund.FONKODU), name |-> fund.FONUNVAN, asset_type |-> "fon",
            price |-> price_raw[1], day_change |-> fund.GUNLUKGETIRI]>>
    ELSE <<>>

\* scraper.rs:183-208  the data of the reference partition on the first
\* candidate date that has any; None when no date has
ProbeResult(responses) ==
    IF responses["YAT"] # None /\ responses["YAT"][1] # <<>> THEN responses["YAT"] ELSE None

\* scraper.rs:210-251  all_funds: the reference partition's data, then the
\* data of the other partitions that answered
AllFunds(responses) ==
    LET OfType(f_type) ==
            IF f_type = "YAT" THEN FlatMap(FundRow, ProbeResult(responses)[1])
            ELSE IF responses[f_type] = None THEN <<>>
            ELSE FlatMap(FundRow, responses[f_type][1])
    IN  FlatMap(OfType, FundTypes)

\* Mutant of UpsertAsset: on a conflict the change is taken against the
\* stored price.
UpsertAssetOwnChange(cache, rec, last_updated) ==
    IF rec.symbol \in DOMAIN cache
    THEN [cache EXCEPT ![rec.symbol].current_price = rec.price,
                       ![rec.symbol].day_change = rec.price - cache[rec.symbol].current_price,
                       ![rec.symbol].last_updated = last_updated]
    ELSE (rec.symbol :> [name |-> rec.name, asset_type |-> rec.asset_type,
                         current_price |-> rec.price, day_change |-> rec.day_change,
                         last_updated |-> last_updated]) @@ cache

\* scraper.rs:130-145, 262-277  INSERT ... ON CONFLICT(symbol) DO UPDATE SET
\* current_price, day_change, last_updated
UpsertAsset(cache, rec, last_updated) ==
    IF rec.symbol \in DOMAIN cache
    THEN [cache EXCEPT ![rec.symbol].current_price = rec.price,
                       ![rec.symbol].day_change = rec.day_change,
                       ![rec.symbol].last_updated = last_updated]
    ELSE (rec.symbol :> [name |-> rec.name, asset_type |-> rec.asset_type,
                         current_price |-> rec.price, day_change |-> rec.day_change,
                         last_updated |-> last_updated]) @@ cache

\* The asset types a pipeline's gate looks at (scraper.rs:29, 156).
GateTypes(kind) ==
    IF kind = "general" THEN {"doviz", "emtia", "hisse", "kripto"} ELSE {"fon"}

\* The rows of the cache of the given asset types.
OfTypes(cache, types) ==
    [k \in {x \in DOMAIN cache : cache[x].asset_type \in types} |-> cache[k]]

\* chrono::DateTime::parse_from_rfc3339 succeeds
Parseable(text) == text.sep = "T"

\* Local::now() - dt, in minutes
ElapsedMinutes(day, min, dt) == (day - dt.day) * 1440 + (min - dt.minute)

\* Duration::num_hours of a number of minutes: towards zero
NumHours(m) == IF m >= 0 THEN m \div 60 ELSE 0 - ((0 - m) \div 60)

\* Mutant of Fresh: the general threshold is applied to funds as well.
FreshQuarterHour(kind, cache, day, min) ==
    LET last_str == MaxLastUpdated(OfTypes(cache, GateTypes(kind))) IN
    /\ last_str # None
    /\ Parseable(last_str[1])
    /\ ElapsedMinutes(day, min, last_str[1]) < 15

\* scraper.rs:28-39, 155-166  the staleness gate lets the command return
Fresh(kind, cache, day, min) ==
    LET last_str == MaxLastUpdated(OfTypes(cache, GateTypes(kind))) IN
    /\ last_str # None
    /\ Parseable(last_str[1])
    /\ IF kind = "general"
       THEN ElapsedMinutes(day, min, last_str[1]) < 15
       ELSE NumHours(ElapsedMinutes(day, min, last_str[1])) < 4

\* Mutant of ExecuteInTx: the statement is committed on its own.
ExecuteAutocommit(committed, working, rec, last_updated) ==
    [committed |-> UpsertAsset(committed, rec, last_updated),
     working |-> UpsertAsset(working, rec, last_updated)]

\* scraper.rs:130-145, 262-277  .execute(&mut *tx): the statement changes the
\* table as the transaction sees it, and not the committed table that the
\* other connections of the pool read
ExecuteInTx(committed, working, rec, last_updated) ==
    [committed |-> committed, working |-> UpsertAsset(working, rec, last_updated)]

----------------------------------------------------------------------------
(* Specification SpecFetch: update_market_data (lib.rs lines 87-102) with  *)
(* "general" or "tefas", one command at a time, against sources that       *)
(* answer the same way every time.  A command is the steps between its     *)
(* awaits: the gate, the requests, each statement of the batch, the commit.*)

\* A row of a page: scraper.rs:78-81
PageRow(name, p_t, symbol, pt) ==
    [name |-> Some(name), price_text |-> p_t, symbol |-> symbol, perc_text |-> pt]

DovizPage == <<PageRow("Dolar", Some(<<"3", "0">>), Some("USD"), Some(<<"-", "2">>))>>
EmtiaPage == <<PageRow("Gram Altin", Some(<<"5">>), None, None)>>
HissePage == <<PageRow("Alpha", Some(<<"4">>), Some("A"), Some(<<"+", "2">>))>>
KriptoPage == <<PageRow("Bitcoin", Some(<<"9">>), Some("BTC"), None)>>

\* A page whose rows are all discarded: a price of 0 and no price element.
DiscardedPage ==
    <<PageRow("Dolar", Some(<<"0">>), Some("USD"), None),
      PageRow("Euro", None, Some("EUR"), None)>>

\* A page that names a symbol of another page again.
SecondUsdPage == <<PageRow("Dolar (altin)", Some(<<"3", "1">>), Some("USD"), None)>>

\* A page whose price element holds a sign before the digits.
SignedPage == <<PageRow("Beta", Some(<<"-", "5">>), Some("BET"), None)>>

AllFailed == [u \in {"doviz", "emtia", "hisse", "kripto"} |-> None]

\* Every subset of the four requests failing, and the three special pages.
GeneralResponses ==
    {[doviz |-> d, emtia |-> e, hisse |-> h, kripto |-> k] :
        d \in {None, Some(DovizPage)}, e \in {None, Some(EmtiaPage)},
        h \in {None, Some(HissePage)}, k \in {None, Some(KriptoPage)}}
    \cup {[AllFailed EXCEPT !["doviz"] = Some(DiscardedPage)],
          [AllFailed EXCEPT !["doviz"] = Some(DovizPage), !["emtia"] = Some(SecondUsdPage)],
          [AllFailed EXCEPT !["hisse"] = Some(SignedPage)]}

\* A fund of the data array: scraper.rs:236-242
Fund(code, name, fiyat, sonfiyat) ==
    [FONKODU |-> code, FONUNVAN |-> name, FIYAT |-> fiyat, SONFIYAT |-> sonfiyat,
     BORSABULTENFIYAT |-> None, GUNLUKGETIRI |-> 1]

NoFunds == [t \in {"YAT", "EMK", "BYF", "GYF", "GSYF"} |-> None]

\* No date with data; one partition; a partition with a discarded fund and
\* one that names a fund again; only discarded funds.
FundResponses ==
    {NoFunds,
     [NoFunds EXCEPT !["YAT"] = Some(<<>>)],
     [NoFunds EXCEPT !["YAT"] = Some(<<Fund("AAA", "Fon A", Some(2), None)>>)],
     [NoFunds EXCEPT !["YAT"] = Some(<<Fund("AAA", "Fon A", Some(2), None)>>),
                     !["EMK"] = Some(<<Fund("a", "Fon a", Some(0), Some(7))>>),
                     !["BYF"] = Some(<<Fund("AAA", "Fon A (byf)", None, Some(3))>>)],
     [NoFunds EXCEPT !["YAT"] = Some(<<Fund("AAA", "Fon A", Some(0), None)>>)]}

Sources ==
    {[general |-> g, funds |-> NoFunds] : g \in GeneralResponses}
    \cup {[general |-> AllFailed, funds |-> f] : f \in FundResponses}
    \cup {[general |-> [AllFailed EXCEPT !["hisse"] = Some(HissePage)],
           funds |-> [NoFunds EXCEPT !["YAT"] = Some(<<Fund("a", "Fon a", Some(2), None)>>)]]}

\* The assets table before the first command: empty, left by earlier
\* fetches at minute 0, or holding only a row of add_transaction.
FetchCaches ==
    {EmptyMap,
     ("USD" :> [AssetRow("ABD Dolari", "doviz", 29) EXCEPT !.last_updated = Rfc3339(Today, 0)])
        @@ ("AAA" :> [AssetRow("Fon A eski", "fon", 1) EXCEPT !.last_updated = Rfc3339(Today, 0)]),
     "A" :> [AssetRow("Entered", "hisse", 2) EXCEPT !.last_updated = SqliteNow(Today, 0)]}

\* The minutes of the day at which something is done.
WaitTimes == {14, 15, 239, 240}

InitFetch ==
    /\ HoldingsStart
    /\ RangeIdle
    /\ SummaryIdle
    /\ ParseIdle
    /\ ProbeIdle
    /\ assets \in FetchCaches
    /\ source \in Sources
    /\ minute = 0
    /\ fetch_pc = "idle"
    /\ update_type = "general"
    /\ forced = FALSE
    /\ requested = {}
    /\ all_assets = <<>>
    /\ tx = None
    /\ before = assets
    /\ returned = None
    /\ last_commit = None
    /\ runs = 0

\* What no step of a fetch command changes.
FetchFrame ==
    UNCHANGED <<rows, fifo_queues, realized_pnl, holdings, pc, rangeVars, summaryVars,
                parseVars, probeVars, source>>

\* Time passes between two commands.
Wait ==
    /\ fetch_pc = "idle"
    /\ \E m \in WaitTimes : m > minute /\ minute' = m
    /\ UNCHANGED <<assets, fetch_pc, update_type, forced, requested, all_assets, tx,
                   before, returned, last_commit, runs>>
    /\ FetchFrame

\* lib.rs:87-102 and scraper.rs:27-40, 154-167  the command is called; the
\* gate returns Ok when force is not set and the category is fresh
UpdateMarketData ==
    /\ fetch_pc = "idle"
    /\ runs < MaxRuns
    /\ \E kind \in {"general", "tefas"}, force \in BOOLEAN :
         /\ update_type' = kind
         /\ forced' = force
         /\ IF ~force /\ Fresh(kind, assets, local_today, minute)
            THEN returned' = Some("Ok") /\ fetch_pc' = "idle"
            ELSE returned' = None /\ fetch_pc' = "fetching"
    /\ runs' = runs + 1
    /\ before' = assets
    /\ requested' = {}
    /\ UNCHANGED <<assets, minute, all_assets, tx, last_commit>>
    /\ FetchFrame

\* The requests a command sends: the four pages; the reference partition
\* and, once a date is adopted, the other four partitions.
Requests(kind, src) ==
    IF kind = "general" THEN {"doviz", "emtia", "hisse", "kripto"}
    ELSE IF ProbeResult(src.funds) = None THEN {"YAT"}
    ELSE {"YAT", "EMK", "BYF", "GYF", "GSYF"}

\* scraper.rs:63-119, 183-251  the records the responses give
Records(kind, src) ==
    IF kind = "general" THEN GeneralAssets(src.general)
    ELSE IF ProbeResult(src.funds) = None THEN <<>>
    ELSE AllFunds(src.funds)

\* scraper.rs:49-126, 169-258  the requests are answered; an empty result
\* returns Ok, otherwise the transaction begins (or fails to)
Fetch ==
    /\ fetch_pc = "fetching"
    /\ requested' = Requests(update_type, source)
    /\ LET found == Records(update_type, source) IN
       IF found = <<>>
       THEN /\ returned' = Some("Ok")
            /\ fetch_pc' = "idle"
            /\ UNCHANGED <<all_assets, tx>>
       ELSE \E ok \in BOOLEAN :
              IF ok
              THEN /\ tx' = Some(assets)
                   /\ all_assets' = found
                   /\ fetch_pc' = "writing"
                   /\ UNCHANGED returned
              ELSE /\ returned' = Some("Err")
                   /\ fetch_pc' = "idle"
                   /\ UNCHANGED <<all_assets, tx>>
    /\ UNCHANGED <<assets, minute, update_type, forced, before, last_commit, runs>>
    /\ FetchFrame

\* scraper.rs:129-146, 261-278  one statement of the batch; an error drops
\* the transaction, which rolls it back
Execute ==
    /\ fetch_pc = "writing"
    /\ all_assets # <<>>
    /\ \E ok \in BOOLEAN :
         IF ok
         THEN LET w == ExecuteInTx(assets, tx[1], Head(all_assets),
                                   Rfc3339(local_today, minute))
              IN  /\ assets' = w.committed
                  /\ tx' = Some(w.working)
                  /\ all_assets' = Tail(all_assets)
                  /\ UNCHANGED <<fetch_pc, returned>>
         ELSE /\ tx' = None
              /\ all_assets' = <<>>
              /\ returned' = Some("Err")
              /\ fetch_pc' = "idle"
              /\ UNCHANGED assets
    /\ UNCHANGED <<minute, update_type, forced, requested, before, last_commit, runs>>
    /\ FetchFrame

\* scraper.rs:148, 280  tx.commit()
Commit ==
    /\ fetch_pc = "writing"
    /\ all_assets = <<>>
    /\ \E ok \in BOOLEAN :
         IF ok
         THEN /\ assets' = tx[1]
              /\ returned' = Some("Ok")
              /\ last_commit' = Some(update_type)
         ELSE /\ returned' = Some("Err")
              /\ UNCHANGED <<assets, last_commit>>
    /\ tx' = None
    /\ fetch_pc' = "idle"
    /\ UNCHANGED <<minute, update_type, forced, requested, all_assets, before, runs>>
    /\ FetchFrame

NextFetch == Wait \/ UpdateMarketData \/ Fetch \/ Execute \/ Commit

SpecFetch == InitFetch /\ [][NextFetch]_vars

----------------------------------------------------------------------------
(* Specification SpecSnapshot: get_portfolio_summary computations running  *)
(* side by side on the pool, each in the steps between its awaits: the     *)
(* reads (calculator.rs lines 183-217), save_snapshot (line 220), the      *)
(* changes and the return (lines 223-236).  Meanwhile a fetch pipeline may  *)
(* commit a new price and the day may change.                              *)

\* The totals a computation has found: calculator.rs:184, 198
Totals(c) ==
    LET hs == GetCurrentHoldings(c.ledger, c.cache).holdings
        total_value == SumFn([h \in hs |-> h.value])
    IN  [total_value |-> total_value,
         total_value_usd |-> TotalValueUsd(total_value, UsdRate(c.cache))]

InitSnapshot ==
    /\ HoldingsStart
    /\ RangeIdle
    /\ FetchIdle
    /\ assets \in AssetCaches
    /\ transactions = <<NewRow([date |-> 1, symbol |-> "a", name |-> "Entered",
                                asset_type |-> "hisse", transaction_type |-> "buy",
                                quantity |-> 2, price |-> 2])>>
    /\ snapshots \in {{}, {SnapshotRow(Today, 1, Div(1, 1))}}
    /\ local_today = Today
    /\ utc_today = Today
    /\ summary = None
    /\ calc = [p \in Procs |-> IdleCalc]

\* What no step of this specification changes.
SnapshotFrame ==
    UNCHANGED <<rows, fifo_queues, realized_pnl, holdings, pc, rangeVars, transactions,
                parseVars, pipelineVars, clock, probe_i, probes, valid_date_str, probe_pc>>

\* calculator.rs:183-217  the holdings, the USD rate, the two ends of the
\* sorted holdings and MAX(last_updated) are read.  The ledger here holds
\* one symbol, so the holdings take one price lookup; the reads are taken
\* as one step, and SpecValuation has the lookups of several symbols as
\* the separate steps they are.
ReadAll(p) ==
    /\ calc[p].pc = "idle"
    /\ LET hs == GetCurrentHoldings(transactions, assets).holdings IN
       \E top \in (IF hs = {} THEN {"-"} ELSE TopSymbols(hs)) :
         \E worst \in (IF hs = {} THEN {"-"} ELSE WorstSymbols(hs)) :
            /\ Cardinality(hs) >= 2 => top # worst
            /\ calc' = [calc EXCEPT ![p] = [pc |-> "valued", ledger |-> transactions,
                                            cache |-> assets, top |-> top, worst |-> worst,
                                            day |-> 0]]
    /\ UNCHANGED <<assets, snapshots, local_today, utc_today, summary, ticks>>
    /\ SnapshotFrame

\* calculator.rs:220  save_snapshot: the row of the local date is upserted,
\* or the store fails and the computation returns the error
Save(p) ==
    /\ calc[p].pc = "valued"
    /\ \E ok \in BOOLEAN :
         IF ok
         THEN /\ snapshots' = SaveSnapshot(snapshots, local_today, Totals(calc[p]).total_value,
                                           Totals(calc[p]).total_value_usd)
              /\ calc' = [calc EXCEPT ![p].pc = "saved", ![p].day = local_today]
              /\ UNCHANGED summary
         ELSE /\ calc' = [calc EXCEPT ![p] = IdleCalc]
              /\ summary' = None
              /\ UNCHANGED snapshots
    /\ UNCHANGED <<assets, local_today, utc_today, ticks>>
    /\ SnapshotFrame

\* calculator.rs:223-236  the three changes are read and the summary returned
Return(p) ==
    /\ calc[p].pc = "saved"
    /\ summary' = Some(MakeSummary(calc[p].ledger, calc[p].cache, snapshots, utc_today,
                                   calc[p].top, calc[p].worst))
    /\ calc' = [calc EXCEPT ![p] = IdleCalc]
    /\ UNCHANGED <<assets, snapshots, local_today, utc_today, ticks>>
    /\ SnapshotFrame

\* scraper.rs:126-148  a fetch pipeline commits a batch of one record
BatchCommitted ==
    /\ \E price \in {3, 4} :
         assets' = UpsertAsset(assets, [symbol |-> "A", name |-> "Alpha", asset_type |-> "hisse",
                                        price |-> price, day_change |-> 0],
                               Rfc3339(local_today, 0))
    /\ UNCHANGED <<snapshots, local_today, utc_today, summary, calc, ticks>>
    /\ SnapshotFrame

\* Midnight passes.
NextDay ==
    /\ ticks < MaxTicks
    /\ ticks' = ticks + 1
    /\ local_today' = local_today + 1
    /\ utc_today' = utc_today + 1
    /\ UNCHANGED <<assets, snapshots, summary, calc>>
    /\ SnapshotFrame

NextSnapshot ==
    \/ \E p \in Procs : ReadAll(p) \/ Save(p) \/ Return(p)
    \/ BatchCommitted
    \/ NextDay

SpecSnapshot == InitSnapshot /\ [][NextSnapshot]_vars

----------------------------------------------------------------------------
(* Specification SpecPerformance: get_range_performance (calculator.rs     *)
(* lines 272-305) for every window over every small snapshot store.        *)

\* The values of the stored snapshots.
SnapshotValues == {0, 4, 6}

\* The stores with at most one row a day.
RangeStores ==
    {{SnapshotRow(d, f[d], Div(f[d], 30)) : d \in DOMAIN f} :
        f \in UNION {[ds -> SnapshotValues] : ds \in SUBSET Dates}}

InitPerformance ==
    /\ HoldingsStart
    /\ assets = EmptyMap
    /\ FetchIdle
    /\ transactions = <<>>
    /\ local_today = Today
    /\ utc_today = Today
    /\ summary = None
    /\ calc = [p \in Procs |-> IdleCalc]
    /\ snapshots \in RangeStores
    /\ start_date \in Options
    /\ end_date \in Options
    /\ r_queues = EmptyMap
    /\ r_pnl = 0
    /\ r_date = 0
    /\ r_count = 0
    /\ profit_ok = TRUE
    /\ range_perf = None

\* calculator.rs:272-305
RangePerformance ==
    /\ range_perf = None
    /\ range_perf' = Some(GetRangePerformance(snapshots, start_date, end_date))
    /\ UNCHANGED <<start_date, end_date, r_queues, r_pnl, r_date, r_count, profit_ok>>
    /\ UNCHANGED <<holdingsVars, summaryVars, fetchVars>>

NextPerformance == RangePerformance

SpecPerformance == InitPerformance /\ [][NextPerformance]_vars

----------------------------------------------------------------------------
(* Specification SpecReads: the four read commands of the engine, each as  *)
(* one step, over the three stores: get_current_holdings,                  *)
(* get_realized_pnl_in_range, get_range_performance and                    *)
(* get_portfolio_summary.  One symbol of the ledger has a row in the asset *)
(* cache, the other has none.                                              *)

\* calculator.rs:120-180  the whole of get_realized_pnl_in_range on a ledger
RECURSIVE ReplayAllInRange(_, _, _, _, _)
ReplayAllInRange(rs, queues, pnl, start, end) ==
    IF rs = <<>> THEN [queues |-> queues, pnl |-> pnl]
    ELSE LET r == ApplyRowInRange(queues, pnl, Head(rs), start, end)
         IN  ReplayAllInRange(Tail(rs), r.queues, r.pnl, start, end)

GetRealizedPnlInRange(ledger, start, end) ==
    ReplayAllInRange(ledger, EmptyMap, 0, start, end)

\* The rows of the ledgers read.
ReadRows ==
    [transaction_date : Dates, symbol : Symbols, transaction_type : TxTypes,
     quantity : {1, 2}, price : Prices, asset_type : AssetTypes]

\* The ledgers read: empty, one row, or a purchase on day 1 and a sale later.
ReadLedgers ==
    {<<>>}
    \cup {<<r>> : r \in ReadRows}
    \cup {<<b, s>> : b \in {r \in ReadRows : /\ r.transaction_type = "BUY"
                                             /\ r.transaction_date = 1
                                             /\ r.quantity = 2},
                     s \in {r \in ReadRows : /\ r.transaction_type = "SELL"
                                             /\ r.quantity = 1}}

\* The asset caches read: no row at all, or a row of "A" and none of "B".
ReadCaches == {EmptyMap} \cup AssetCaches

\* The snapshot stores read: empty, a row of an earlier day, and that row
\* with a row of today.
ReadStores ==
    {{},
     {SnapshotRow(Today - 30, 6, Div(6, 30))},
     {SnapshotRow(Today - 30, 6, Div(6, 30)), SnapshotRow(Today, 1, Div(1, 1))}}

InitReads ==
    /\ HoldingsStart
    /\ FetchIdle
    /\ assets \in ReadCaches
    /\ transactions \in ReadLedgers
    /\ snapshots \in ReadStores
    /\ local_today = Today
    /\ utc_today = Today
    /\ summary = None
    /\ calc = [p \in Procs |-> IdleCalc]
    /\ start_date \in Options
    /\ end_date \in Options
    /\ r_queues = EmptyMap
    /\ r_pnl = 0
    /\ r_date = 0
    /\ r_count = 0
    /\ profit_ok = TRUE
    /\ range_perf = None

\* calculator.rs:44-118  get_current_holdings, from the query to the return
HoldingsRead ==
    /\ pc = "replay"
    /\ LET m == ReplayAll(transactions, EmptyMap, 0) IN
       /\ rows' = transactions
       /\ fifo_queues' = m.queues
       /\ realized_pnl' = m.pnl
       /\ holdings' = GetCurrentHoldings(transactions, assets).holdings
    /\ pc' = "done"
    /\ UNCHANGED <<assets, rangeVars, summaryVars, fetchVars>>

\* calculator.rs:120-180  get_realized_pnl_in_range, from the query to the return
RealizedPnlRead ==
    /\ r_count = 0
    /\ LET m == GetRealizedPnlInRange(transactions, start_date, end_date) IN
       /\ r_queues' = m.queues
       /\ r_pnl' = m.pnl
    /\ r_count' = Len(transactions)
    /\ r_date' = IF transactions = <<>> THEN 0
                 ELSE transactions[Len(transactions)].transaction_date
    /\ UNCHANGED <<start_date, end_date, profit_ok, range_perf>>
    /\ UNCHANGED <<holdingsVars, summaryVars, fetchVars>>

NextReads == HoldingsRead \/ RealizedPnlRead \/ RangePerformance \/ GetPortfolioSummary

SpecReads == InitReads /\ [][NextReads]_vars

----------------------------------------------------------------------------
(* Specification SpecCache: the two writers of the assets table, the       *)
(* manual entry of add_transaction (lib.rs lines 243-254) and the upsert   *)
(* of a fetched batch (scraper.rs lines 126-148), in every order.          *)

\* The records a fetcher may have scraped (scraper.rs:116).
IngestRecords ==
    [symbol : {"USD", "A"}, name : {"Scraped"}, asset_type : {"emtia"},
     price : {30, 31}, day_change : {0, 1}]

InitCache ==
    /\ HoldingsStart
    /\ RangeIdle
    /\ FetchIdle
    /\ assets \in SummaryCaches
    /\ transactions = <<>>
    /\ snapshots = {}
    /\ utc_today = Today
    /\ local_today = Today
    /\ summary = None
    /\ calc = [p \in Procs |-> IdleCalc]

\* scraper.rs:126-148  a fetcher commits a batch of one record
IngestCommitted ==
    /\ \E rec \in IngestRecords :
         assets' = UpsertAsset(assets, rec, Rfc3339(local_today, 1))
    /\ UNCHANGED <<rows, fifo_queues, realized_pnl, holdings, pc>>
    /\ UNCHANGED <<rangeVars, summaryVars, fetchVars>>

NextCache == AddTransaction \/ IngestCommitted

SpecCache == InitCache /\ [][NextCache]_vars

----------------------------------------------------------------------------
(* Specification SpecKinds: the two matchers replay, side by side and      *)
(* without a window, a ledger of one symbol whose kind texts are arbitrary *)
(* (calculator.rs lines 66-83 and 142-175).                                *)

\* Kind texts: the five buy synonyms in upper, lower and mixed case, and
\* texts that are none of them, the empty text among them.
KindTexts ==
    {"BUY", "buy", "Buy", "ALIM", "alim", "ALI_S", "ali_s", "A", "a",
     "PURCHASE", "purchase", "SELL", "sell", "SATIM", "hold", "B", ""}

KindRows ==
    [transaction_date : {1}, symbol : {"a"}, transaction_type : KindTexts,
     quantity : {1, 2}, price : {2, 3}, asset_type : AssetTypes]

InitKinds ==
    /\ HoldingsStart
    /\ assets = EmptyMap
    /\ RangeIdle
    /\ SummaryIdle
    /\ FetchIdle

\* calculator.rs:56-84 and 132-177  both loops take the next row
ReplayKind ==
    /\ Len(rows) < MaxKinds
    /\ \E row \in KindRows :
         LET h == ApplyRow(fifo_queues, realized_pnl, row)
             r == ApplyRowInRange(r_queues, r_pnl, row, start_date, end_date)
         IN  /\ rows' = Append(rows, row)
             /\ fifo_queues' = h.queues
             /\ realized_pnl' = h.pnl
             /\ r_queues' = r.queues
             /\ r_pnl' = r.pnl
             /\ r_date' = row.transaction_date
    /\ r_count' = r_count + 1
    /\ UNCHANGED <<holdings, assets, pc, start_date, end_date, profit_ok, range_perf>>
    /\ UNCHANGED <<summaryVars, fetchVars>>

NextKinds == ReplayKind

SpecKinds == InitKinds /\ [][NextKinds]_vars

----------------------------------------------------------------------------
(* Specification SpecOrder: rows are inserted into the transactions table  *)
(* (lib.rs lines 227-241, db.rs lines 24-40) and get_current_holdings      *)
(* reads them ORDER BY transaction_date ASC, created_at ASC                 *)
(* (calculator.rs lines 45-51).  created_at is CURRENT_TIMESTAMP, a text   *)
(* with the second as its last digit; rows that agree in both columns come *)
(* in an order the statement does not fix.                                 *)

\* The rows a command may insert (without id and created_at).
OrderRows ==
    [transaction_date : Dates, symbol : {"a"}, transaction_type : TxTypes,
     quantity : {1}, price : Prices, asset_type : AssetTypes]

\* The second of CURRENT_TIMESTAMP when the last row was inserted.
LastSecond(table) == IF table = <<>> THEN 0 ELSE table[Len(table)].created_at

\* db.rs:25-26  the row as stored: id is the next rowid, created_at the
\* second of the insert
StoredRow(table, t, second) ==
    [id |-> Len(table) + 1, created_at |-> second,
     transaction_date |-> t.transaction_date, symbol |-> t.symbol,
     transaction_type |-> t.transaction_type, quantity |-> t.quantity,
     price |-> t.price, asset_type |-> t.asset_type]

\* calculator.rs:48  ORDER BY transaction_date ASC, created_at ASC
OrderKeyLeq(a, b) ==
    \/ a.transaction_date < b.transaction_date
    \/ a.transaction_date = b.transaction_date /\ a.created_at <= b.created_at

\* calculator.rs:45-51  the results the query may give: the rows of the
\* table in every order that ascends in the two columns
QueryResults(table) ==
    LET n == Len(table)
        perms == {f \in [1 .. n -> 1 .. n] : \A i, j \in 1 .. n : i # j => f[i] # f[j]}
    IN  {[i \in 1 .. n |-> table[f[i]]] :
            f \in {g \in perms : \A i \in 1 .. n - 1 : OrderKeyLeq(table[g[i]], table[g[i + 1]])}}

InitOrder ==
    /\ HoldingsStart
    /\ assets = EmptyMap
    /\ RangeIdle
    /\ SummaryIdle
    /\ FetchIdle

\* lib.rs:227-241  a row is inserted, in the second of the last insert or
\* in the next one
InsertRow ==
    /\ pc = "replay"
    /\ Len(transactions) < MaxEntries
    /\ \E t \in OrderRows, second \in {LastSecond(transactions), LastSecond(transactions) + 1} :
         transactions' = Append(transactions, StoredRow(transactions, t, second))
    /\ UNCHANGED <<snapshots, local_today, utc_today, summary, calc>>
    /\ UNCHANGED <<holdingsVars, rangeVars, fetchVars>>

\* calculator.rs:44-118  get_current_holdings: the query, the replay of its
\* rows in the order they came, the valuation
HoldingsQuery ==
    /\ pc = "replay"
    /\ \E result \in QueryResults(transactions) :
         /\ rows' = result
         /\ fifo_queues' = ReplayAll(result, EmptyMap, 0).queues
         /\ realized_pnl' = ReplayAll(result, EmptyMap, 0).pnl
         /\ holdings' = GetCurrentHoldings(result, assets).holdings
    /\ pc' = "done"
    /\ UNCHANGED <<assets, rangeVars, summaryVars, fetchVars>>

NextOrder == InsertRow \/ HoldingsQuery

SpecOrder == InitOrder /\ [][NextOrder]_vars

----------------------------------------------------------------------------
(* Specification SpecPartitions: update_tefas_funds from the search for    *)
(* the trading date to the merge of the partitions (scraper.rs lines       *)
(* 180-231), request by request.  A probe is sent and awaited inside the   *)
(* loop; the futures of the other partitions are awaited together by       *)
(* join_all, so they are sent and answered in any order.  Here `requested` *)
(* holds the requests sent, `source` what the partitions answered so far   *)
(* (None for a failed request) and `all_assets` the list funds_data.       *)

\* scraper.rs:189, 217  the form of a request; i is the iteration of the
\* loop that sent it, ProbeDays for the requests sent after the loop
FundRequest(f_type, d_str, i) == [fontip |-> f_type, date |-> d_str, i |-> i]

\* Mutant of PartitionDate: the partitions are asked for today's date.
PartitionDateToday(valid, now) == now

\* scraper.rs:215  d_str = valid_date_str.clone()
PartitionDate(valid, now) == valid

\* scraper.rs:211  fund_types without "YAT"
RemainingTypes == SelectSeq(FundTypes, LAMBDA t : t # "YAT")

\* The JSON a partition answers with.
FundJson(f_type, d_str) == [fontip |-> f_type, date |-> d_str]

\* scraper.rs:225-228  results.into_iter().flatten() pushed onto funds_data
PushResults(funds_data, answers) ==
    LET OfType(t) == IF answers[t] = None THEN <<>> ELSE <<answers[t][1]>>
    IN  funds_data \o FlatMap(OfType, RemainingTypes)

\* The days on which the command begins: a Monday and a Saturday.
PartitionClocks == {8, 13}

InitPartitions ==
    /\ OthersIdle
    /\ ParseIdle
    /\ clock \in PartitionClocks
    /\ ticks = 0
    /\ probe_i = 0
    /\ probes = <<>>
    /\ valid_date_str = None
    /\ probe_pc = "probe"
    /\ source = EmptyMap
    /\ minute = 0
    /\ fetch_pc = "fetching"
    /\ update_type = "tefas"
    /\ forced = TRUE
    /\ requested = {}
    /\ all_assets = <<>>
    /\ tx = None
    /\ before = EmptyMap
    /\ returned = None
    /\ last_commit = None
    /\ runs = 1

\* What no step of this specification changes.
PartitionFrame ==
    UNCHANGED <<holdingsVars, rangeVars, summaryVars, parseVars, minute, fetch_pc,
                update_type, forced, tx, before, last_commit, runs>>

\* The local date changes while the command runs.
DayPasses ==
    /\ probe_pc \in {"probe", "waiting", "found", "joining"}
    /\ ticks < MaxTicks
    /\ clock' = clock + 1
    /\ ticks' = ticks + 1
    /\ UNCHANGED <<probe_i, probes, valid_date_str, probe_pc, source, requested,
                   all_assets, returned>>
    /\ PartitionFrame

\* scraper.rs:184-186  the candidate is a weekend day: continue
SkipCandidate ==
    /\ probe_pc = "probe"
    /\ probe_i < ProbeDays
    /\ IsWeekend(clock - probe_i)
    /\ probes' = Append(probes, Probe(probe_i, clock, "skipped"))
    /\ probe_i' = probe_i + 1
    /\ UNCHANGED <<clock, ticks, valid_date_str, probe_pc, source, requested,
                   all_assets, returned>>
    /\ PartitionFrame

\* scraper.rs:184-192  the query for the candidate is sent
SendProbe ==
    /\ probe_pc = "probe"
    /\ probe_i < ProbeDays
    /\ ~IsWeekend(clock - probe_i)
    /\ requested' = requested \cup {FundRequest("YAT", clock - probe_i, probe_i)}
    /\ probes' = Append(probes, Probe(probe_i, clock, "sent"))
    /\ probe_pc' = "waiting"
    /\ UNCHANGED <<clock, ticks, probe_i, valid_date_str, source, all_assets, returned>>
    /\ PartitionFrame

\* scraper.rs:192-202  the query is answered; a non-empty data array sets
\* valid_date_str, is pushed onto funds_data and breaks the loop
ProbeAnswered ==
    /\ probe_pc = "waiting"
    /\ \E answer \in Answers :
         LET sent == probes[Len(probes)] IN
         /\ probes' = [probes EXCEPT ![Len(probes)].answer = answer]
         /\ IF answer = "data"
            THEN /\ valid_date_str' = Some(sent.date)
                 /\ all_assets' = <<FundJson("YAT", sent.date)>>
                 /\ probe_pc' = "found"
                 /\ probe_i' = probe_i
            ELSE /\ probe_i' = probe_i + 1
                 /\ probe_pc' = "probe"
                 /\ UNCHANGED <<valid_date_str, all_assets>>
    /\ UNCHANGED <<clock, ticks, source, requested, returned>>
    /\ PartitionFrame

\* scraper.rs:206-208  the loop ran out with valid_date_str empty: return Ok
NoDate ==
    /\ probe_pc = "probe"
    /\ probe_i = ProbeDays
    /\ probe_pc' = "none"
    /\ returned' = Some("Ok")
    /\ UNCHANGED <<clock, ticks, probe_i, probes, valid_date_str, source, requested,
                   all_assets>>
    /\ PartitionFrame

\* scraper.rs:213-225  join_all polls the futures: the request of one of
\* the other partitions is sent
SendPartition ==
    /\ probe_pc \in {"found", "joining"}
    /\ \E k \in 1 .. Len(RemainingTypes) :
         LET f_type == RemainingTypes[k] IN
         /\ \A r \in requested : r.fontip # f_type
         /\ requested' = requested \cup
               {FundRequest(f_type, PartitionDate(valid_date_str[1], clock), ProbeDays)}
    /\ probe_pc' = "joining"
    /\ UNCHANGED <<clock, ticks, probe_i, probes, valid_date_str, source, all_assets,
                   returned>>
    /\ PartitionFrame

\* scraper.rs:218-221  a request of join_all is answered with a JSON, or
\* fails
PartitionAnswered ==
    /\ probe_pc = "joining"
    /\ \E r \in requested :
         /\ r.fontip # "YAT"
         /\ r.fontip \notin DOMAIN source
         /\ \E ok \in BOOLEAN :
              source' = (r.fontip :> (IF ok THEN Some(FundJson(r.fontip, r.date)) ELSE None))
                            @@ source
    /\ UNCHANGED <<clock, ticks, probe_i, probes, valid_date_str, probe_pc, requested,
                   all_assets, returned>>
    /\ PartitionFrame

\* scraper.rs:225-228  every future is done: the results are merged
MergeResults ==
    /\ probe_pc = "joining"
    /\ \A k \in 1 .. Len(RemainingTypes) : RemainingTypes[k] \in DOMAIN source
    /\ all_assets' = PushResults(all_assets, source)
    /\ probe_pc' = "merged"
    /\ UNCHANGED <<clock, ticks, probe_i, probes, valid_date_str, source, requested,
                   returned>>
    /\ PartitionFrame

NextPartitions ==
    \/ DayPasses
    \/ SkipCandidate
    \/ SendProbe
    \/ ProbeAnswered
    \/ NoDate
    \/ SendPartition
    \/ PartitionAnswered
    \/ MergeResults

SpecPartitions == InitPartitions /\ [][NextPartitions]_vars

----------------------------------------------------------------------------
(* Specification SpecFund: a forced update_tefas_funds whose reference     *)
(* partition answers with one fund record, for every combination of what   *)
(* the three price fields of the record hold (scraper.rs lines 233-251);   *)
(* the steps are those of the fetch pipeline.                              *)

\* What a price field may hold.
FieldValues == {None, JsonNull, JsonString("7"), Some(-1), Some(0), Some(2), Some(3)}

FundRecords ==
    [FONKODU : {"AAA"}, FONUNVAN : {"Fon A"}, FIYAT : FieldValues, SONFIYAT : FieldValues,
     BORSABULTENFIYAT : FieldValues, GUNLUKGETIRI : {1}]

InitFund ==
    /\ HoldingsStart
    /\ RangeIdle
    /\ SummaryIdle
    /\ ParseIdle
    /\ ProbeIdle
    /\ assets = EmptyMap
    /\ source \in {[general |-> AllFailed, funds |-> [NoFunds EXCEPT !["YAT"] = Some(<<f>>)]] :
                      f \in FundRecords}
    /\ minute = 0
    /\ fetch_pc = "fetching"
    /\ update_type = "tefas"
    /\ forced = TRUE
    /\ requested = {}
    /\ all_assets = <<>>
    /\ tx = None
    /\ before = assets
    /\ returned = None
    /\ last_commit = None
    /\ runs = MaxRuns

NextFund == Fetch \/ Execute \/ Commit

SpecFund == InitFund /\ [][NextFund]_vars

----------------------------------------------------------------------------
(* Specification SpecAll: update_market_data called with the type "all" or *)
(* with a type it does not know (lib.rs lines 87-102).  "all" awaits the   *)
(* general pipeline, drops its result and then runs the fund pipeline; the *)
(* steps of each pipeline are those of SpecFetch.  update_type is the      *)
(* pipeline that runs, or ran last, and `returned` its result until the    *)
(* next pipeline begins; the result of the fund pipeline is the command's. *)

\* Mutant of AfterGeneral: an error of the general pipeline is returned.
AfterGeneralPropagate(result) == IF result = Some("Err") THEN "return" ELSE "tefas"

\* lib.rs:97-98  let _ = update_general_assets(..).await; then the funds
AfterGeneral(result) == "tefas"

\* The types the command is called with.
CommandTypes == {"all", "every"}

InitAll ==
    /\ HoldingsStart
    /\ RangeIdle
    /\ SummaryIdle
    /\ ParseIdle
    /\ ProbeIdle
    /\ assets \in FetchCaches
    /\ source \in Sources
    /\ minute = 0
    /\ fetch_pc = "idle"
    /\ update_type = "unknown"
    /\ forced = FALSE
    /\ requested = {}
    /\ all_assets = <<>>
    /\ tx = None
    /\ before = assets
    /\ returned = None
    /\ last_commit = None
    /\ runs = 0

\* lib.rs:87-101  the command is called: "all" begins the general pipeline
\* at its gate, any other text that is neither "general" nor "tefas"
\* returns the error
CallCommand ==
    /\ fetch_pc = "idle"
    /\ update_type \in {"tefas", "unknown"}
    /\ runs < MaxRuns
    /\ \E kind \in CommandTypes, force \in BOOLEAN :
         /\ forced' = force
         /\ IF kind = "all"
            THEN /\ update_type' = "general"
                 /\ IF ~force /\ Fresh("general", assets, local_today, minute)
                    THEN returned' = Some("Ok") /\ fetch_pc' = "idle"
                    ELSE returned' = None /\ fetch_pc' = "fetching"
            ELSE /\ update_type' = "unknown"
                 /\ returned' = Some("Err")
                 /\ fetch_pc' = "idle"
    /\ runs' = runs + 1
    /\ before' = assets
    /\ requested' = {}
    /\ UNCHANGED <<assets, minute, all_assets, tx, last_commit>>
    /\ FetchFrame

\* lib.rs:97-98  the general pipeline has returned: its result is dropped
\* and the fund pipeline begins at its gate
ThenTefas ==
    /\ fetch_pc = "idle"
    /\ update_type = "general"
    /\ AfterGeneral(returned) = "tefas"
    /\ update_type' = "tefas"
    /\ IF ~forced /\ Fresh("tefas", assets, local_today, minute)
       THEN returned' = Some("Ok") /\ fetch_pc' = "idle"
       ELSE returned' = None /\ fetch_pc' = "fetching"
    /\ requested' = {}
    /\ UNCHANGED <<assets, minute, forced, all_assets, tx, before, last_commit, runs>>
    /\ FetchFrame

NextAll == Wait \/ CallCommand \/ ThenTefas \/ Fetch \/ Execute \/ Commit

SpecAll == InitAll /\ [][NextAll]_vars

----------------------------------------------------------------------------
(* Specification SpecValuation: get_current_holdings (calculator.rs lines  *)
(* 44-118) in the steps between its awaits, the query of the ledger and    *)
(* then one SELECT on the assets table for every held symbol (lines        *)
(* 97-100), on the pool and outside any transaction.  Meanwhile a fetch    *)
(* pipeline writes and commits a batch (scraper.rs lines 126-148).         *)

\* The ledgers valued: two purchases on day 1, of one symbol or of two.
ValuedLedgers ==
    {<<x, y>> : x, y \in {r \in ReadRows : /\ r.transaction_type = "BUY"
                                           /\ r.transaction_date = 1
                                           /\ r.price = 1}}

\* The assets table before the batch: both symbols priced, or "A" only.
ValuedCaches ==
    {"A" :> AssetRow("Alpha", "hisse", 3),
     ("A" :> AssetRow("Alpha", "hisse", 3)) @@ ("B" :> AssetRow("Beta", "hisse", 3))}

\* A record of the batch: scraper.rs:116
BatchRecord(symbol, name) ==
    [symbol |-> symbol, name |-> name, asset_type |-> "hisse", price |-> 4, day_change |-> 1]

\* The batches the pipeline has scraped: a new price of "A", or of both.
ValuedBatches ==
    {<<BatchRecord("A", "Alpha")>>,
     <<BatchRecord("A", "Alpha"), BatchRecord("B", "Beta")>>}

\* calculator.rs:87-91  the symbols of the loop that have not been valued
ToValue(queues, valued) ==
    {k \in DOMAIN queues : Held(queues[k])} \ {h.symbol : h \in valued}

\* The pipeline has begun its transaction; the holdings have not been asked.
InitValuation ==
    /\ HoldingsStart
    /\ RangeIdle
    /\ ParseIdle
    /\ ProbeIdle
    /\ assets \in ValuedCaches
    /\ transactions \in ValuedLedgers
    /\ snapshots = {}
    /\ local_today = Today
    /\ utc_today = Today
    /\ summary = None
    /\ calc = [p \in Procs |-> IdleCalc]
    /\ source = EmptyMap
    /\ minute = 1
    /\ fetch_pc = "writing"
    /\ update_type = "general"
    /\ forced = TRUE
    /\ requested = GateTypes("general")
    /\ all_assets \in ValuedBatches
    /\ tx = Some(assets)
    /\ before = assets
    /\ returned = None
    /\ last_commit = None
    /\ runs = MaxRuns

\* calculator.rs:45-84  the query is awaited and its rows replayed
QueryRows ==
    /\ pc = "replay"
    /\ rows = <<>>
    /\ LET m == ReplayAll(transactions, EmptyMap, 0) IN
       /\ rows' = transactions
       /\ fifo_queues' = m.queues
       /\ realized_pnl' = m.pnl
       /\ pc' = IF ToValue(m.queues, {}) = {} THEN "done" ELSE "valuing"
    /\ UNCHANGED <<holdings, assets>>
    /\ UNCHANGED <<rangeVars, summaryVars, fetchVars>>

\* calculator.rs:87-114  one iteration of the loop over the map, in the
\* order of the map: the SELECT is awaited and the holding pushed; after
\* the last one the function returns
ValueSymbol ==
    /\ pc = "valuing"
    /\ \E symbol \in ToValue(fifo_queues, holdings) :
         /\ holdings' = holdings \cup {MakeHolding(symbol, fifo_queues[symbol], assets)}
         /\ pc' = IF ToValue(fifo_queues, holdings') = {} THEN "done" ELSE "valuing"
    /\ UNCHANGED <<rows, fifo_queues, realized_pnl, assets>>
    /\ UNCHANGED <<rangeVars, summaryVars, fetchVars>>

NextValuation == QueryRows \/ ValueSymbol \/ Execute \/ Commit

SpecValuation == InitValuation /\ [][NextValuation]_vars

----------------------------------------------------------------------------
(* Specification SpecEntry: transactions are recorded by add_transaction   *)
(* (lib.rs lines 221-257), which writes the symbol as it was entered into  *)
(* the ledger and into the assets table, and get_current_holdings          *)
(* (calculator.rs lines 44-118) is then asked for the holdings.            *)

InitEntry ==
    /\ HoldingsStart
    /\ RangeIdle
    /\ FetchIdle
    /\ assets \in SummaryCaches
    /\ transactions = <<>>
    /\ snapshots = {}
    /\ utc_today = Today
    /\ local_today = Today
    /\ summary = None
    /\ calc = [p \in Procs |-> IdleCalc]

NextEntry == AddTransaction \/ HoldingsRead

SpecEntry == InitEntry /\ [][NextEntry]_vars

----------------------------------------------------------------------------
(* Claims.                                                                 *)

\* C1: after purchases of one symbol followed by a sale of Q units, Q no
\* more than was bought, the queue holds what is left when the purchases
\* are used up oldest first (each one whole before the next is touched, the
\* last touched one split), exactly Q units are gone, and the realized PnL
\* is the sum over the purchases of (sale price - unit cost) * part taken.
\* The scenario BUY 10@100, BUY 5@120, SELL 12@150 leaves one lot 3@120 and
\* a realized PnL of 560.
C1_FifoSale ==
    /\ BuysThenSale(rows) =>
          LET n == Len(rows) - 1
              buys == SubSeq(rows, 1, n)
              sale == rows[n + 1]
              q == sale.quantity
          IN  /\ fifo_queues[Key(sale)] = LotsLeft(buys, q)
              /\ TotalQty(fifo_queues[Key(sale)]) = Cum(BuyQtys(buys), n) - q
              /\ realized_pnl =
                    SumSeq([i \in 1 .. n |->
                              (sale.price - buys[i].price) * Taken(BuyQtys(buys), i, q)])
    /\ rows = Scenario =>
          /\ fifo_queues = ("A" :> <<[qty |-> 3, cost |-> 120, atype |-> "hisse"]>>)
          /\ realized_pnl = 560

C1_Witness ==
    /\ rows = Scenario
    /\ BuysThenSale(rows)
    /\ Len(fifo_queues["A"]) = 1
    /\ realized_pnl = 560

\* C2: a sale of more than the symbol holds empties the symbol's queue,
\* leaves no lot of negative quantity anywhere, and adds to the realized PnL
\* the profit on the lots that were held and nothing for the excess.
C2_Oversell ==
    [][(pc = "replay" /\ rows' # rows) =>
         LET row == Replayed
             held == Entry(fifo_queues, Key(row))
         IN  (row.transaction_type = "SELL" /\ row.quantity > TotalQty(held)) =>
               /\ fifo_queues'[Key(row)] = <<>>
               /\ \A k \in DOMAIN fifo_queues' :
                     \A i \in 1 .. Len(fifo_queues'[k]) : fifo_queues'[k][i].qty >= 0
               /\ realized_pnl' - realized_pnl =
                     SumSeq([i \in 1 .. Len(held) |-> (row.price - held[i].cost) * held[i].qty])
      ]_vars

C2_Witness ==
    /\ Len(rows) = 2
    /\ rows[1] = [symbol |-> "a", transaction_type |-> "BUY", quantity |-> 1,
                  price |-> 1, asset_type |-> "hisse"]
    /\ rows[2] = [symbol |-> "a", transaction_type |-> "SELL", quantity |-> 2,
                  price |-> 2, asset_type |-> "hisse"]
    /\ fifo_queues["A"] = <<>>
    /\ realized_pnl = 1

\* C3: whatever the window, after each row the queues of the range matcher
\* are those of the unrestricted matcher on the same rows: the same symbols,
\* and for each the same lots (quantity and unit cost) in the same order.
C3_SameQueues ==
    /\ DOMAIN r_queues = DOMAIN fifo_queues
    /\ \A s \in DOMAIN r_queues : r_queues[s] = Bare(fifo_queues[s])

\* A sale outside the window has consumed lots.
C3_Witness ==
    /\ r_count >= 2
    /\ r_pnl = 0
    /\ realized_pnl > 0
    /\ \E s \in DOMAIN r_queues : Len(r_queues[s]) = 1 /\ r_queues[s][1].qty = 1

\* C4: when no sale took any part of a lot at a loss, the realized PnL of
\* the range matcher is at most the unrestricted realized PnL.
C4_RangeAtMostTotal ==
    profit_ok => r_pnl <= realized_pnl

\* One sale inside the window and one outside, both at a profit.
C4_Witness ==
    /\ profit_ok
    /\ 0 < r_pnl
    /\ r_pnl < realized_pnl

\* The effective USD rate as claimed: the cached price of "USD", 1 without
\* such a row, 1 when the cached price exceeds 500.
ClaimedRate(cache) ==
    IF "USD" \notin DOMAIN cache THEN 1
    ELSE IF cache["USD"].current_price > 500 THEN 1
    ELSE cache["USD"].current_price

\* C8 (as claimed): total_value_usd is total_value divided by the effective
\* rate, whatever the cached USD price.
C8_AsClaimed ==
    summary # None =>
        summary[1].total_value_usd = Div(summary[1].total_value, ClaimedRate(assets))

\* C8 (amended): the effective rate is the cached USD price, 1 without a
\* row and 1 above 500; total_value_usd is total_value divided by it when
\* it is > 0, and 0 when the cached price is <= 0.  A cached price of 1000
\* gives total_value_usd = total_value.
C8_UsdRate ==
    summary # None =>
        LET sm == summary[1]
            rate == ClaimedRate(assets)
        IN  /\ rate > 0 => sm.total_value_usd = [num |-> sm.total_value, den |-> rate]
            /\ rate <= 0 => sm.total_value_usd = Zero
            /\ ("USD" \in DOMAIN assets /\ assets["USD"].current_price = 1000)
                  => sm.total_value_usd = [num |-> sm.total_value, den |-> 1]

C8_Witness ==
    /\ summary # None
    /\ "USD" \in DOMAIN assets
    /\ assets["USD"].current_price = 1000
    /\ summary[1].total_value = 6
    /\ summary[1].total_value_usd = [num |-> 6, den |-> 1]

\* C5: the holdings returned name exactly the symbols whose remaining
\* quantity is positive: none whose queue is empty or whose total is <= 0,
\* and every one whose total is > 0.
C5_HoldingsPositive ==
    pc = "done" =>
        /\ \A h \in holdings :
              /\ h.symbol \in DOMAIN fifo_queues
              /\ fifo_queues[h.symbol] # <<>>
              /\ TotalQty(fifo_queues[h.symbol]) > 0
              /\ h.quantity = TotalQty(fifo_queues[h.symbol])
        /\ \A s \in DOMAIN fifo_queues :
              TotalQty(fifo_queues[s]) > 0 => \E h \in holdings : h.symbol = s

C5_Witness ==
    /\ pc = "done"
    /\ \E s \in DOMAIN fifo_queues :
          fifo_queues[s] # <<>> /\ TotalQty(fifo_queues[s]) = 0
    /\ Cardinality(holdings) = 1

\* C6 (as claimed): after any prefix of a ledger of quantities >= 0, every
\* lot in every queue has a quantity > 0.
C6_LotsPositive ==
    \A s \in DOMAIN fifo_queues :
        \A i \in 1 .. Len(fifo_queues[s]) : fifo_queues[s][i].qty > 0

\* C7: for a symbol none of whose sales exceeds what is held when it is
\* replayed, the quantities left in its queue add up to the quantity bought
\* minus the quantity sold.
C7_NetQuantity ==
    \A s \in Keys :
        NoOversell(rows, s) => TotalQty(Entry(fifo_queues, s)) = Net(rows, Len(rows), s)

C7_Witness ==
    \E s \in Keys :
        /\ NoOversell(rows, s)
        /\ \E k \in 1 .. Len(rows) :
              Key(rows[k]) = s /\ rows[k].transaction_type = "SELL" /\ rows[k].quantity = 1
        /\ Len(Entry(fifo_queues, s)) = 2
        /\ TotalQty(Entry(fifo_queues, s)) = 2

\* Two decimal fractions (denominators powers of ten) are the same number.
SameNumber(a, b) ==
    IF a.den >= b.den THEN a.num = b.num * (a.den \div b.den)
    ELSE b.num = a.num * (b.den \div a.den)

\* The text is made of digits, commas and dots.
OnlyPriceChars(text) == \A i \in 1 .. Len(text) : text[i] \in Digits \cup {",", "."}

DigitsOf(text) == SelectSeq(text, LAMBDA c : c \in Digits)

\* The decimal separator of a text: the rightmost of comma and dot when
\* both occur, else the comma when it occurs, else the dot.
DecimalSeparator(text) ==
    LET seps == {i \in 1 .. Len(text) : text[i] \in {",", "."}} IN
    IF Contains(text, ",") /\ Contains(text, ".")
    THEN text[CHOOSE i \in seps : \A j \in seps : j <= i]
    ELSE IF Contains(text, ",") THEN "," ELSE "."

\* The number a text of digits, commas and dots stands for: the digits
\* before the decimal separator as the whole part and the digits after it as
\* the decimal places, the other separator dropped; 0 when the decimal
\* separator occurs twice or there is no digit.
Normalized(text) ==
    LET d == DecimalSeparator(text)
        at == {i \in 1 .. Len(text) : text[i] = d}
        k == IF at = {} THEN Len(text) + 1 ELSE CHOOSE i \in at : TRUE
        whole == DigitsOf(SubSeq(text, 1, k - 1))
        places == DigitsOf(SubSeq(text, k + 1, Len(text)))
    IN  IF Cardinality(at) > 1 \/ DigitsOf(text) = <<>> THEN Zero
        ELSE [num |-> DigitsValue(whole \o places), den |-> Pow10(Len(places))]

\* C9: the price of a text made of digits, commas and dots is the number
\* read with the rightmost of comma and dot as the decimal separator when
\* both occur (the other dropped as thousands separator), with the comma as
\* the decimal separator when only it occurs, and 0 when the text does not
\* parse after that; "1.234,56" and "1,234.56" give 1234.56, "12,5" and
\* "12.5" give 12.5.
C9_Normalization ==
    (parsed_price # None /\ OnlyPriceChars(price_text)) =>
        /\ SameNumber(parsed_price[1], Normalized(price_text))
        /\ price_text = <<"1", ".", "2", "3", "4", ",", "5", "6">>
              => parsed_price[1] = [num |-> 123456, den |-> 100]
        /\ price_text = <<"1", ",", "2", "3", "4", ".", "5", "6">>
              => parsed_price[1] = [num |-> 123456, den |-> 100]
        /\ price_text = <<"1", "2", ",", "5">> => parsed_price[1] = [num |-> 125, den |-> 10]
        /\ price_text = <<"1", "2", ".", "5">> => parsed_price[1] = [num |-> 125, den |-> 10]
        /\ price_text = <<"1", ",", "5", ",">> => parsed_price[1] = Zero

\* "1.234,56" has been parsed to 1234.56.
C9_Witness ==
    /\ price_text = <<"1", ".", "2", "3", "4", ",", "5", "6">>
    /\ parsed_price = Some([num |-> 123456, den |-> 100])

\* Saturday or Sunday, day 1 being a Monday.
SaturdayOrSunday(d) == d % 7 \in {6, 0}

\* C10: the iterations take the candidates today, today-1, ..., today-4 in
\* that order (today being the date when the candidate is taken); a weekend
\* candidate is never queried and every other candidate is; no candidate is
\* taken after one whose query returned data; the trading date is the date
\* of that query, and there is none while no query has returned data.  With
\* no data for today and yesterday and data two days ago, that date is
\* adopted after three iterations.
C10_DateProbing ==
    /\ \A k \in 1 .. Len(probes) :
          /\ probes[k].i = k - 1
          /\ probes[k].i <= 4
          /\ probes[k].date = probes[k].now - (k - 1)
          /\ ticks = 0 => probes[k].date = clock - (k - 1)
          /\ (probes[k].answer = "skipped") <=> SaturdayOrSunday(probes[k].date)
          /\ k < Len(probes) => probes[k].answer # "data"
    /\ IF probes # <<>> /\ probes[Len(probes)].answer = "data"
       THEN valid_date_str = Some(probes[Len(probes)].date) /\ probe_pc = "found"
       ELSE valid_date_str = None /\ probe_pc # "found"
    /\ probe_pc = "none" => Len(probes) = 5
    /\ (/\ Len(probes) >= 3
        /\ probes[1].answer \in {"empty", "error"}
        /\ probes[2].answer \in {"empty", "error"}
        /\ probes[3].answer = "data")
          => /\ Len(probes) = 3
             /\ valid_date_str = Some(probes[3].date)

\* No data today and yesterday, data two days ago: that date is adopted and
\* the search is over.
C10_Witness ==
    /\ Len(probes) = 3
    /\ ticks = 0
    /\ probes[1].answer = "empty"
    /\ probes[2].answer = "empty"
    /\ probes[3].answer = "data"
    /\ valid_date_str = Some(clock - 2)
    /\ probe_pc = "found"
    /\ ~ENABLED NextProbe

\* An assets table without its last_updated column.
WithoutStamp(cache) ==
    [k \in DOMAIN cache |->
        [name |-> cache[k].name, asset_type |-> cache[k].asset_type,
         current_price |-> cache[k].current_price, day_change |-> cache[k].day_change]]

\* The step commits a batch.
Commits == fetch_pc = "writing" /\ all_assets = <<>> /\ returned' = Some("Ok")

\* C11: a forced command that commits its batch when the last batch
\* committed came from the same pipeline and the same source data leaves
\* the rows of the assets table and every column but last_updated as they
\* were.
C11_Idempotent ==
    [][(Commits /\ forced /\ last_commit = Some(update_type))
           => WithoutStamp(assets') = WithoutStamp(assets)]_vars

\* The general pipeline has committed the two pages that both name USD a
\* second time, later than the first: only last_updated has changed.
C11_Witness ==
    /\ runs = 2
    /\ fetch_pc = "idle"
    /\ forced
    /\ update_type = "general"
    /\ returned = Some("Ok")
    /\ last_commit = Some("general")
    /\ "USD" \in DOMAIN before
    /\ before["USD"].name = "Dolar"
    /\ before["USD"].current_price = 31
    /\ assets # before
    /\ WithoutStamp(assets) = WithoutStamp(before)

\* The records of a batch with the symbol s.
RECURSIVE WithSymbol(_, _)
WithSymbol(recs, s) ==
    IF recs = <<>> THEN <<>>
    ELSE (IF Head(recs).symbol = s THEN <<Head(recs)>> ELSE <<>>) \o WithSymbol(Tail(recs), s)

\* The table with a whole batch applied: a symbol of the batch has the price
\* and change of its last record and the batch's stamp; its name and type
\* are the stored ones, or those of its first record when it is new.
BatchApplied(cache, recs, stamp) ==
    LET syms == {recs[i].symbol : i \in 1 .. Len(recs)} IN
    [k \in DOMAIN cache \cup syms |->
       IF k \notin syms THEN cache[k]
       ELSE LET mine == WithSymbol(recs, k)
                last == mine[Len(mine)]
            IN  [name |-> IF k \in DOMAIN cache THEN cache[k].name ELSE mine[1].name,
                 asset_type |-> IF k \in DOMAIN cache THEN cache[k].asset_type
                                ELSE mine[1].asset_type,
                 current_price |-> last.price, day_change |-> last.day_change,
                 last_updated |-> stamp]]

\* C12: the assets table that the readers see changes only by a whole
\* batch: every step leaves it as it is or applies all the records of the
\* command's batch at once; while a command runs the table is as it was
\* when the command began; a command that returns an error leaves it so,
\* and one that returns Ok after writing has applied the whole batch.
C12_AllOrNothing ==
    [][LET whole == BatchApplied(assets, Records(update_type, source),
                                 Rfc3339(local_today, minute))
       IN  /\ assets' = assets \/ assets' = whole
           /\ fetch_pc' # "idle" => assets' = before'
           /\ returned' = Some("Err") => assets' = before'
           /\ (fetch_pc = "writing" /\ fetch_pc' = "idle")
                 => \/ returned' = Some("Err")
                    \/ returned' = Some("Ok") /\ assets' = whole
      ]_vars

\* A batch of two records is half executed: the transaction sees the first
\* record, the readers see the table as it was.
C12_Witness ==
    /\ fetch_pc = "writing"
    /\ Len(Records(update_type, source)) = 2
    /\ Len(all_assets) = 1
    /\ tx[1] # assets
    /\ assets = before

\* The step calls a command.
Called == runs' = runs + 1

\* The age in minutes of a last_updated text at the time of the step.
Age(t) == (local_today - t.day) * 1440 + (minute - t.minute)

\* The threshold of a pipeline in minutes: 15 minutes, 4 hours.
Threshold(kind) == IF kind = "general" THEN 15 ELSE 4 * 60

\* C13: a command called without force, when the maximum last_updated of
\* its category is present, parseable and younger than the threshold,
\* returns Ok at once, with no request sent and the assets table as it
\* was; a command called with force goes on to its requests whatever the
\* table holds.
C13_StalenessGate ==
    [][Called =>
         LET last == MaxLastUpdated(OfTypes(assets, GateTypes(update_type'))) IN
         /\ (~forced' /\ last # None /\ last[1].sep = "T"
                /\ Age(last[1]) < Threshold(update_type'))
               => /\ returned' = Some("Ok")
                  /\ fetch_pc' = "idle"
                  /\ requested' = {}
                  /\ assets' = assets
         /\ forced' => fetch_pc' = "fetching" /\ returned' = None
      ]_vars

\* The fund command called without force 3 hours 59 minutes after the last
\* fund row was written has returned Ok without a request.
C13_Witness ==
    /\ runs = 1
    /\ update_type = "tefas"
    /\ ~forced
    /\ minute = 239
    /\ "AAA" \in DOMAIN assets
    /\ assets["AAA"].last_updated = Rfc3339(Today, 0)
    /\ returned = Some("Ok")
    /\ requested = {}
    /\ fetch_pc = "idle"
    /\ assets = before

\* The rows of a page that give a record: name and price present and the
\* price positive.
ValidRows(page) ==
    {i \in 1 .. Len(page) :
        /\ page[i].name # None
        /\ page[i].price_text # None
        /\ ParsePriceText(page[i].price_text[1]).num > 0}

\* The sources of the general pipeline that answered with a valid row.
Answered == {u \in DOMAIN source.general :
                source.general[u] # None /\ ValidRows(source.general[u][1]) # {}}

\* The prices the valid rows of the answered sources give a symbol.
ValidPrices(sym) ==
    LET valid == UNION {{<<u, i>> : i \in ValidRows(source.general[u][1])} : u \in Answered}
        Rec(x) == ScrapeRow(source.general[x[1]][1][x[2]], x[1])[1]
    IN  {Rec(x).price : x \in {y \in valid : Rec(y).symbol = sym}}

\* C17: in the general pipeline all four requests are sent and awaited
\* whichever of them fail; a failed source never makes the command return
\* an error (with nothing valid answered it returns Ok); and a commit
\* leaves a row, stamped by this batch and priced by a valid row, for the
\* symbol of every valid row of every source that answered.
C17_IndependentSources ==
    [][update_type = "general" =>
         /\ fetch_pc = "fetching" =>
               /\ requested' = {"doviz", "emtia", "hisse", "kripto"}
               /\ Answered = {} => returned' = Some("Ok")
               /\ Answered # {} => fetch_pc' = "writing" \/ returned' = Some("Err")
         /\ returned' = Some("Err") => Answered # {}
         /\ Commits =>
               \A u \in Answered : \A i \in ValidRows(source.general[u][1]) :
                  LET rec == ScrapeRow(source.general[u][1][i], u)[1] IN
                  /\ rec.symbol \in DOMAIN assets'
                  /\ assets'[rec.symbol].last_updated = Rfc3339(local_today, minute)
                  /\ assets'[rec.symbol].current_price \in ValidPrices(rec.symbol)
      ]_vars

\* The pages of doviz and kripto failed; the records of emtia and hisse
\* are committed.
C17_Witness ==
    /\ update_type = "general"
    /\ source.general["doviz"] = None
    /\ source.general["kripto"] = None
    /\ returned = Some("Ok")
    /\ fetch_pc = "idle"
    /\ requested = {"doviz", "emtia", "hisse", "kripto"}
    /\ before = EmptyMap
    /\ DOMAIN assets = {"GRAMA", "A"}
    /\ assets["GRAMA"].current_price = 5
    /\ assets["A"].current_price = 4

\* The price of a fund record: the first of the three fields that is there.
FundPrice(fund) ==
    IF fund.FIYAT # None THEN fund.FIYAT[1]
    ELSE IF fund.SONFIYAT # None THEN fund.SONFIYAT[1]
    ELSE IF fund.BORSABULTENFIYAT # None THEN fund.BORSABULTENFIYAT[1]
    ELSE 0

\* The result set of the running command's pipeline is empty: every page
\* failed or gave no valid row; no date had data for the reference
\* partition, or every fund of every partition that answered is discarded.
EmptyResult ==
    IF update_type = "general" THEN Answered = {}
    ELSE \/ source.funds["YAT"] = None
         \/ source.funds["YAT"] = Some(<<>>)
         \/ \A t \in DOMAIN source.funds :
               source.funds[t] # None =>
                  \A i \in 1 .. Len(source.funds[t][1]) : FundPrice(source.funds[t][1][i]) <= 0

\* C18: a command whose result set is empty never opens a transaction,
\* leaves the assets table (every last_updated included) as it was when
\* the command began, and returns Ok.
C18_EmptyNoWrite ==
    (runs > 0 /\ EmptyResult) =>
        /\ assets = before
        /\ tx = None
        /\ fetch_pc # "writing"
        /\ fetch_pc = "idle" => returned = Some("Ok")

\* The fund command has sent its requests, found only a fund of price 0,
\* and returned Ok with the table as it was.
C18_Witness ==
    /\ update_type = "tefas"
    /\ source.funds["YAT"] = Some(<<Fund("AAA", "Fon A", Some(0), None)>>)
    /\ requested = {"YAT", "EMK", "BYF", "GYF", "GSYF"}
    /\ fetch_pc = "idle"
    /\ returned = Some("Ok")
    /\ "AAA" \in DOMAIN assets
    /\ assets = before

\* The rows of a store with the given date.
RowsOf(store, date) == {r \in store : r.snapshot_date = date}

\* C14: whatever the interleaving of the computations, the store never holds
\* two rows of one date; the store changes only when a computation saves,
\* and then the row of the local date holds that computation's totals and
\* the rows of the other dates are as they were (the last write wins); and
\* a computation that returns a summary has written the row of the local
\* date it saved on, which is still there.
C14_OneRowPerDay ==
    [][/\ \A r \in snapshots' : RowsOf(snapshots', r.snapshot_date) = {r}
       /\ snapshots' # snapshots =>
             \E p \in Procs :
                /\ calc[p].pc = "valued"
                /\ calc'[p].pc = "saved"
       /\ \A p \in Procs :
             (calc[p].pc = "valued" /\ calc'[p].pc = "saved") =>
                /\ calc'[p].day = local_today
                /\ RowsOf(snapshots', local_today) =
                      {SnapshotRow(local_today, Totals(calc[p]).total_value,
                                   Totals(calc[p]).total_value_usd)}
                /\ \A d \in {r.snapshot_date : r \in snapshots \cup snapshots'} \ {local_today} :
                      RowsOf(snapshots', d) = RowsOf(snapshots, d)
       /\ \A p \in Procs :
             (calc[p].pc = "saved" /\ calc'[p].pc = "idle") =>
                /\ summary' # None
                /\ summary'[1].total_value = Totals(calc[p]).total_value
                /\ RowsOf(snapshots', calc[p].day) # {}
      ]_vars

\* Two computations have saved on the same day with different totals: the
\* day has one row, and it holds the totals of one of them while the other
\* has been overwritten.
C14_Witness ==
    /\ calc[1].pc = "saved"
    /\ calc[2].pc = "saved"
    /\ calc[1].day = calc[2].day
    /\ Totals(calc[1]).total_value = 6
    /\ Totals(calc[2]).total_value = 8
    /\ RowsOf(snapshots, calc[1].day) = {SnapshotRow(calc[1].day, 6, Div(6, 1))}

\* The change pair against the latest snapshot of the given day or before:
\* (0, 0) without one or when its value is not positive.
ChangeSince(store, day, current_total) ==
    LET older == {r \in store : r.snapshot_date <= day} IN
    IF older = {} THEN <<0, Zero>>
    ELSE LET last == CHOOSE r \in older : \A q \in older : q.snapshot_date <= r.snapshot_date
             value == last.total_value_tl
         IN  IF value > 0
             THEN <<current_total - value, Div((current_total - value) * 100, value)>>
             ELSE <<0, Zero>>

\* The three change pairs of a summary against the store, counted back
\* from the given day.
ChangesFrom(sm, store, today) ==
    /\ <<sm.daily_change, sm.daily_change_pct>> = ChangeSince(store, today - 1, sm.total_value)
    /\ <<sm.weekly_change, sm.weekly_change_pct>> = ChangeSince(store, today - 7, sm.total_value)
    /\ <<sm.monthly_change, sm.monthly_change_pct>>
          = ChangeSince(store, today - 30, sm.total_value)

\* C15: the daily, weekly and monthly change pairs of a summary are taken
\* against the latest snapshot dated today - 1, today - 7 and today - 30 or
\* before, today being the calendar date under which the summary has saved
\* its snapshot; (0, 0) when there is none or its value is not positive.
C15_Horizons ==
    summary # None => ChangesFrom(summary[1], snapshots, local_today)

\* The same with the days counted back from the store's own date('now').
C15_FromStoreDate ==
    summary # None => ChangesFrom(summary[1], snapshots, utc_today)

\* The value of the snapshot that is the latest among the given rows, 0
\* when there is none.
LatestOf(rs) ==
    IF rs = {} THEN 0
    ELSE (CHOOSE r \in rs : \A q \in rs : q.snapshot_date <= r.snapshot_date).total_value_tl

\* C16: the end value is that of the latest snapshot of end_date or before,
\* of the latest snapshot of all when end_date is absent; the start value
\* is that of the latest snapshot of start_date or before, 0 when
\* start_date is absent; the result is (end - start, (end - start) / start
\* * 100) exactly when the start value is positive and (0, 0) otherwise,
\* hence (0, 0) for every call without a start_date.
C16_RangePerformance ==
    range_perf # None =>
        LET end_value == IF end_date = None THEN LatestOf(snapshots)
                         ELSE LatestOf({r \in snapshots : r.snapshot_date <= end_date[1]})
            start_value == IF start_date = None THEN 0
                           ELSE LatestOf({r \in snapshots : r.snapshot_date <= start_date[1]})
        IN  /\ start_value > 0 =>
                  range_perf[1] = <<end_value - start_value,
                                    [num |-> (end_value - start_value) * 100,
                                     den |-> start_value]>>
            /\ start_value <= 0 => range_perf[1] = <<0, Zero>>
            /\ start_date = None => range_perf[1] = <<0, Zero>>

\* Snapshots of 4 on day 1 and 6 on day 2: without a start the result is
\* (0, 0) although the end value is 6.
C16_Witness ==
    /\ snapshots = {SnapshotRow(1, 4, Div(4, 30)), SnapshotRow(2, 6, Div(6, 30))}
    /\ start_date = None
    /\ end_date = None
    /\ range_perf = Some(<<0, Zero>>)

\* The rows of a snapshot store of the days other than `day`.
OtherDays(store, day) == {r \in store : r.snapshot_date # day}

\* The step is the return of get_current_holdings, of
\* get_realized_pnl_in_range, of get_range_performance.
HoldingsReturned == pc = "replay" /\ pc' = "done"

RealizedPnlReturned == r_count' # r_count \/ r_pnl' # r_pnl \/ r_queues' # r_queues

RangePerformanceReturned == range_perf = None /\ range_perf' # None

\* The step is the return of get_portfolio_summary: a summary is there and
\* no other command's result has changed.
SummaryReturned ==
    /\ summary' # None
    /\ ~HoldingsReturned /\ ~RealizedPnlReturned /\ ~RangePerformanceReturned

\* C19: no read command writes the ledger or the asset cache;
\* get_current_holdings, get_realized_pnl_in_range and get_range_performance
\* leave the snapshot store as it is as well; get_portfolio_summary changes
\* at most the snapshot row of today's date, and the store changes in no
\* other step.
C19_ReadsOnly ==
    [][/\ transactions' = transactions
       /\ assets' = assets
       /\ (HoldingsReturned \/ RealizedPnlReturned \/ RangePerformanceReturned)
              => snapshots' = snapshots
       /\ OtherDays(snapshots', local_today) = OtherDays(snapshots, local_today)
       /\ snapshots' # snapshots => SummaryReturned]_vars

\* All four commands have returned over a ledger of one purchase; the row of
\* an earlier day is in the store beside today's row, which holds the value
\* the summary found.
C19_Witness ==
    /\ pc = "done"
    /\ r_count = 1
    /\ range_perf # None
    /\ summary # None
    /\ Len(transactions) = 1
    /\ holdings # {}
    /\ "A" \in DOMAIN assets
    /\ snapshots = {SnapshotRow(Today - 30, 6, Div(6, 30)), SnapshotRow(Today, 3, Div(3, 1))}

\* C20: a symbol with open lots and no row in the asset cache is returned by
\* get_current_holdings as a holding of its quantity with current_price 0,
\* value 0 and pnl = -(sum of lot quantity * unit cost), under its symbol as
\* its name; the summary counts it among the holdings, adds nothing for it to
\* the total value and its whole cost to the loss.
C20_MissingPrice ==
    LET queues == ReplayAll(transactions, EmptyMap, 0).queues
        open == {s \in DOMAIN queues : TotalQty(queues[s]) > 0}
        priced == {s \in open : s \in DOMAIN assets}
        value == SumFn([s \in priced |-> TotalQty(queues[s]) * assets[s].current_price])
        cost == SumFn([s \in open |-> TotalCost(queues[s])])
    IN  /\ pc = "done" =>
              \A s \in open \ priced :
                  \E h \in holdings :
                      /\ h.symbol = s
                      /\ h.name = s
                      /\ h.quantity = TotalQty(queues[s])
                      /\ h.current_price = 0
                      /\ h.value = 0
                      /\ h.pnl = 0 - TotalCost(queues[s])
        /\ summary # None =>
              /\ summary[1].holdings_count = Cardinality(open)
              /\ summary[1].total_value = value
              /\ summary[1].unrealized_pnl = value - cost

\* Two units of "B" bought at 2 are held and "B" has no row in the cache,
\* which has one of "A": the holdings and the summary have been returned.
C20_Witness ==
    /\ pc = "done"
    /\ summary # None
    /\ "A" \in DOMAIN assets
    /\ "B" \notin DOMAIN assets
    /\ \E h \in holdings : h.symbol = "B" /\ h.quantity = 2 /\ h.pnl = -4
    /\ summary[1].holdings_count = 1
    /\ summary[1].unrealized_pnl = -4

\* The step is a manual entry: the ledger has a new last row.
Entered == Len(transactions') = Len(transactions) + 1

\* The symbol of the row the step has entered.
EnteredSymbol == transactions'[Len(transactions')].symbol

\* The step is the commit of a fetched batch.
Ingested == transactions' = transactions /\ assets' # assets

\* A row of the cache without its name.
Unnamed(row) ==
    [asset_type |-> row.asset_type, current_price |-> row.current_price,
     day_change |-> row.day_change, last_updated |-> row.last_updated]

SignedValue(text) ==
    UnwrapOrZero(ParseTrFloat(
        SelectSeq(text, LAMBDA c : c \in Digits \cup {",", ".", "-", "+"})))

\* The prices of the records of the pages that answered, page by page and
\* row by row, when a record is kept iff its price text denotes a positive
\* number and is priced with that number.
SignedPrices(responses) ==
    LET OfUrl(u) ==
            IF responses[u] = None THEN <<>>
            ELSE LET OfRow(row) ==
                         IF /\ row.name # None
                            /\ row.price_text # None
                            /\ SignedValue(row.price_text[1]).num > 0
                         THEN <<Whole(SignedValue(row.price_text[1]))>>
                         ELSE <<>>
                 IN  FlatMap(OfRow, responses[u][1])
    IN  FlatMap(OfUrl, Urls)

\* The prices of a batch, record by record.
BatchPrices(recs) == [i \in 1 .. Len(recs) |-> recs[i].price]

\* C22 (as claimed): the batch the general fetcher writes holds exactly the
\* records whose price text denotes a positive number, each priced with the
\* signed number its text denotes; with no such record the command returns
\* Ok without a batch.
C22_AsClaimed ==
    [][(fetch_pc = "fetching" /\ update_type = "general") =>
          /\ fetch_pc' = "writing" => BatchPrices(all_assets') = SignedPrices(source.general)
          /\ SignedPrices(source.general) = <<>> => fetch_pc' = "idle"]_vars

\* C22 (what holds): every statement of a batch of the general fetcher
\* writes a price > 0.
C22_PositivePrices ==
    [][(fetch_pc = "writing" /\ update_type = "general" /\ tx' # None) =>
          LET rec == Head(all_assets) IN
          /\ rec.price > 0
          /\ tx'[1][rec.symbol].current_price = rec.price]_vars

\* The day d lies in the window: not before its start, not after its end,
\* an absent bound excluding nothing.
WithinWindow(d, start, end) ==
    /\ start = None \/ start[1] <= d
    /\ end = None \/ d <= end[1]

\* C23: the two matchers replay the same rows.  The row replayed adds to
\* the range-filtered total exactly the profit it realizes in
\* get_current_holdings when its date lies in the inclusive window, and
\* nothing otherwise; without bounds the two totals are equal.
C23_RangeSum ==
    [][/\ r_pnl' - r_pnl =
             IF WithinWindow(r_date', start_date, end_date)
             THEN realized_pnl' - realized_pnl ELSE 0
       /\ (start_date = None /\ end_date = None) => r_pnl' = realized_pnl']_vars

\* Three rows are replayed, the window is the one day 2, and of the
\* profit of 2 realized by the sales only 1 falls on that day.
C23_Witness ==
    /\ r_count = 3
    /\ start_date = Some(2)
    /\ end_date = Some(2)
    /\ r_date = 2
    /\ realized_pnl = 2
    /\ r_pnl = 1

\* The spellings of the five buy synonyms in upper, lower and mixed case.
BuyKinds ==
    {"BUY", "buy", "Buy", "ALIM", "alim", "ALI_S", "ali_s", "A", "a", "PURCHASE", "purchase"}

\* The queue has one lot more, at its tail, with the quantity and the
\* price of the row.
Appended(before_q, after_q, row) ==
    /\ Len(after_q) = Len(before_q) + 1
    /\ SubSeq(after_q, 1, Len(before_q)) = before_q
    /\ after_q[Len(after_q)] = [qty |-> row.quantity, cost |-> row.price]

\* The queue has lost, from its head, the quantity of the row or all it had.
Consumed(before_q, after_q, row) ==
    /\ Len(after_q) <= Len(before_q)
    /\ SumSeq(LotQtys(after_q)) =
          Max(0, SumSeq(LotQtys(before_q)) - row.quantity)

\* C24: in both matchers a row whose kind is a spelling of a buy synonym
\* appends a lot and realizes nothing, and a row of any other kind, the
\* empty text included, consumes lots as a sale; the two queues are the
\* same after every row.
C24_BinaryKind ==
    [][LET row == Replayed
           s == Key(row)
           q == Bare(Entry(fifo_queues, s))
           rq == Entry(r_queues, s)
       IN  /\ Bare(fifo_queues'[s]) = r_queues'[s]
           /\ row.transaction_type \in BuyKinds =>
                 /\ Appended(q, Bare(fifo_queues'[s]), row)
                 /\ Appended(rq, r_queues'[s], row)
                 /\ realized_pnl' = realized_pnl
                 /\ r_pnl' = r_pnl
           /\ row.transaction_type \notin BuyKinds =>
                 /\ Consumed(q, Bare(fifo_queues'[s]), row)
                 /\ Consumed(rq, r_queues'[s], row)]_vars

\* A purchase spelled "alim" was followed by a row of the empty kind, which
\* took one unit of its lot at a profit.
C24_Witness ==
    /\ Len(rows) = 2
    /\ rows[1].transaction_type = "alim"
    /\ rows[1].quantity = 2
    /\ rows[1].price = 2
    /\ rows[2].transaction_type = ""
    /\ rows[2].price = 3
    /\ fifo_queues["A"] = <<[qty |-> 1, cost |-> 2, atype |-> "hisse"]>>
    /\ realized_pnl = 1
    /\ r_pnl = 1

\* The purchases of symbol s among the rows, in the order of the ledger.
BuysOf(rs, s) ==
    SelectSeq(rs, LAMBDA r : Key(r) = s /\ r.transaction_type = "BUY")

\* The queue is a contiguous suffix of the purchases: lot i is purchase
\* number (purchases - lots + i), with its unit cost and asset type, and
\* with its quantity unless it is the head, which holds no more than that.
SuffixOf(queue, buys) ==
    /\ Len(queue) <= Len(buys)
    /\ \A i \in 1 .. Len(queue) :
          LET b == buys[Len(buys) - Len(queue) + i] IN
          /\ queue[i].cost = b.price
          /\ queue[i].atype = b.asset_type
          /\ i > 1 => queue[i].qty = b.quantity
          /\ i = 1 => queue[i].qty <= b.quantity

\* C25: after every prefix of every ledger the queue of every symbol, read
\* head to tail, is a contiguous suffix of the symbol's purchases in ledger
\* order; every lot has its original unit cost and every lot but the head
\* its original quantity.
C25_NeverReordered ==
    \A s \in DOMAIN fifo_queues : SuffixOf(fifo_queues[s], BuysOf(rows, s))

\* Of two purchases of different cost a sale has taken the first and left
\* the second whole.
C25_Witness ==
    /\ Len(rows) = 3
    /\ rows[1].transaction_type = "BUY" /\ rows[1].price = 1 /\ rows[1].quantity = 1
    /\ rows[2].transaction_type = "BUY" /\ rows[2].price = 2 /\ rows[2].quantity = 2
    /\ rows[3].transaction_type = "SELL" /\ rows[3].quantity = 1
    /\ Key(rows[1]) = "A" /\ Key(rows[2]) = "A" /\ Key(rows[3]) = "A"
    /\ fifo_queues["A"] = <<[qty |-> 2, cost |-> 2, atype |-> "hisse"]>>

\* C26 (as claimed): of two rows of the same date the one inserted earlier
\* (the smaller id) is replayed first, whatever the seconds of the inserts;
\* rows of an earlier date are replayed before rows of a later one.
C26_AsClaimed ==
    pc = "done" =>
        \A i, j \in 1 .. Len(rows) :
            i < j =>
                \/ rows[i].transaction_date < rows[j].transaction_date
                \/ /\ rows[i].transaction_date = rows[j].transaction_date
                   /\ rows[i].id < rows[j].id

\* C26 (what holds): the rows are replayed by date, and rows of one date
\* inserted in different seconds in the order of their inserts.
C26_ByDateAndSecond ==
    pc = "done" =>
        \A i, j \in 1 .. Len(rows) :
            i < j =>
                \/ rows[i].transaction_date < rows[j].transaction_date
                \/ /\ rows[i].transaction_date = rows[j].transaction_date
                   /\ rows[i].created_at = rows[j].created_at \/ rows[i].id < rows[j].id

\* The requests sent for the reference partition, and for the others.
ProbeRequests == {r \in requested : r.fontip = "YAT"}

PartitionRequests == {r \in requested : r.fontip # "YAT"}

\* The iteration's query has been answered, or the iteration sent none.
Completed(probe) == probe.answer \in Answers \cup {"skipped"}

\* C27: a query for the reference partition is sent only when every
\* earlier iteration is over without data, so at most one is unanswered;
\* no other partition is queried before a date is adopted, none while a
\* probe is unanswered, and no probe is sent after the adoption; every
\* query for another partition carries the adopted date, whatever the date
\* has become since; the merge holds the reference partition's data and
\* the data of exactly the partitions whose query did not fail.
C27_ProbeThenPartitions ==
    /\ \A k \in 1 .. Len(probes) : ~Completed(probes[k]) => k = Len(probes)
    /\ \A r \in ProbeRequests :
          /\ \E k \in 1 .. Len(probes) :
                probes[k].i = r.i /\ probes[k].date = r.date /\ probes[k].answer # "skipped"
          /\ \A k \in 1 .. Len(probes) :
                probes[k].i < r.i => Completed(probes[k]) /\ probes[k].answer # "data"
    /\ PartitionRequests # {} =>
          /\ valid_date_str # None
          /\ probes[Len(probes)].answer = "data"
          /\ \A r \in PartitionRequests : r.date = valid_date_str[1]
          /\ \A r \in ProbeRequests : r.i <= probes[Len(probes)].i
    /\ \A t \in DOMAIN source : \E r \in PartitionRequests : r.fontip = t
    /\ probe_pc = "merged" =>
          LET d == valid_date_str[1]
              merged == {all_assets[k] : k \in 1 .. Len(all_assets)}
              others == {"EMK", "BYF", "GYF", "GSYF"}
          IN  /\ Cardinality(merged) = Len(all_assets)
              /\ merged = {FundJson("YAT", d)}
                             \cup {FundJson(t, d) : t \in {x \in others : source[x] # None}}

\* The date was adopted in the second iteration, the day has changed since,
\* the query of one partition failed: the merge holds the other four.
C27_Witness ==
    /\ probe_pc = "merged"
    /\ Len(probes) = 2
    /\ valid_date_str # Some(clock)
    /\ ticks = 1
    /\ source["EMK"] = None
    /\ source["BYF"] # None /\ source["GYF"] # None /\ source["GSYF"] # None
    /\ Len(all_assets) = 4

\* The fund record the reference partition answered with.
TheFund == source.funds["YAT"][1][1]

\* The three price fields in their order.
PriceFields(fund) == <<fund.FIYAT, fund.SONFIYAT, fund.BORSABULTENFIYAT>>

\* The first of the fields that satisfies Test, None when there is none.
FirstField(fields, Test(_)) ==
    IF \A k \in 1 .. Len(fields) : ~Test(fields[k]) THEN None
    ELSE Some(fields[CHOOSE k \in 1 .. Len(fields) :
                        Test(fields[k]) /\ \A j \in 1 .. k - 1 : ~Test(fields[j])])

IsPresent(v) == v # None

IsNumber(v) == v # None /\ v \notin {JsonNull, JsonString("7")}

\* The command is over and has committed what it found.
FundDone == fetch_pc = "idle" /\ returned = Some("Ok")

\* The record is in the table with the price of the selected field, or the
\* table is empty when no field is selected or its price is not positive.
UpsertedFrom(selected) ==
    IF selected # None /\ IsNumber(selected[1]) /\ selected[1][1] > 0
    THEN /\ FundDone => DOMAIN assets = {"AAA"}
         /\ "AAA" \in DOMAIN assets => assets["AAA"].current_price = selected[1][1]
    ELSE assets = EmptyMap

\* C28 (as claimed): the price selected is that of the first of FIYAT,
\* SONFIYAT, BORSABULTENFIYAT that is present in the record.
C28_AsClaimed == UpsertedFrom(FirstField(PriceFields(TheFund), IsPresent))

\* C28 (amended): the price selected is that of the first of FIYAT,
\* SONFIYAT, BORSABULTENFIYAT that holds a number, a field that is absent,
\* null or a text being passed over; the record is upserted with that price
\* iff there is such a field and its number is > 0, whatever a later field
\* holds.
C28_FirstNumber == UpsertedFrom(FirstField(PriceFields(TheFund), IsNumber))

\* FIYAT holds 0 and SONFIYAT 2: the command is over and nothing is written.
C28_Witness ==
    /\ FundDone
    /\ TheFund.FIYAT = Some(0)
    /\ TheFund.SONFIYAT = Some(2)
    /\ assets = EmptyMap

\* FIYAT holds a text and SONFIYAT 2: the fund is upserted at 2.
C28_WitnessFallback ==
    /\ FundDone
    /\ TheFund.FIYAT = JsonString("7")
    /\ TheFund.SONFIYAT = Some(2)
    /\ "AAA" \in DOMAIN assets
    /\ assets["AAA"].current_price = 2

\* The general pipeline of an "all" command is over: it has committed,
\* was skipped by its gate, found nothing, or failed.
GeneralOver ==
    /\ update_type = "general"
    /\ fetch_pc = "idle"
    /\ returned \in {Some("Ok"), Some("Err")}
    /\ tx = None
    /\ all_assets = <<>>

\* C29: in an "all" command the fund pipeline begins only when the general
\* pipeline is over, and whenever it is over, failed or not, the fund
\* pipeline can begin; a transaction is opened and closed within one
\* pipeline and writes only records of that pipeline; a command of an
\* unknown type returns the error and sends no request, opens no
\* transaction and leaves the assets table as it is.
C29_AllInSequence ==
    /\ [](/\ (update_type = "general" /\ fetch_pc = "idle") => GeneralOver /\ ENABLED ThenTefas
          /\ update_type = "unknown" =>
                /\ fetch_pc = "idle"
                /\ tx = None
                /\ requested = {}
                /\ assets = before
                /\ runs > 0 => returned = Some("Err")
          /\ fetch_pc = "writing" =>
                \A k \in 1 .. Len(all_assets) :
                    (all_assets[k].asset_type = "fon") <=> (update_type = "tefas"))
    /\ [][/\ (update_type' = "tefas" /\ update_type # "tefas") => GeneralOver
          /\ update_type' # update_type => tx = None /\ tx' = None]_vars

\* One "all" command on an empty table: the general pipeline had a record
\* of "A" and failed, the fund pipeline has committed its own.
C29_Witness ==
    /\ runs = 1
    /\ update_type = "tefas"
    /\ returned = Some("Ok")
    /\ last_commit = Some("tefas")
    /\ before = EmptyMap
    /\ source.general["hisse"] # None
    /\ DOMAIN assets = {"A"}
    /\ assets["A"].asset_type = "fon"

\* The symbols whose queue the step leaves as it was.
Untouched == DOMAIN fifo_queues \ {Key(Replayed)}

\* C30: a replayed row of symbol S, a purchase or a sale, changes the queue
\* of upper-cased S only: every other queue is after the row what it was
\* before it, and no queue but that of S is created.
C30_OwnQueueOnly ==
    [][rows' # rows =>
         /\ DOMAIN fifo_queues' = DOMAIN fifo_queues \cup {Key(Replayed)}
         /\ \A t \in Untouched : fifo_queues'[t] = fifo_queues[t]]_vars

\* "A" was never bought and has just been sold, an oversell, while "B"
\* holds the lot that was bought for it.
C30_Witness ==
    /\ Len(rows) >= 2
    /\ Key(rows[Len(rows)]) = "A"
    /\ \A i \in 1 .. Len(rows) :
          Key(rows[i]) = "A" => ~IsBuy(rows[i].transaction_type)
    /\ IsBuy(rows[1].transaction_type)
    /\ Key(rows[1]) = "B"
    /\ "A" \in DOMAIN fifo_queues
    /\ fifo_queues["A"] = <<>>
    /\ fifo_queues["B"] = PushLot(<<>>, rows[1])

\* C31 as claimed: the holdings a computation returns while a batch is
\* written are all valued on the assets table as it was before the batch,
\* or all on the table as the batch left it.
C31_AsClaimed ==
    pc = "done" =>
        \/ holdings = BuildHoldings(fifo_queues, before)
        \/ holdings = BuildHoldings(fifo_queues, assets)

\* C31, what holds: every holding of the result is valued on a committed
\* table, the one before the batch or the one after it, and never on the
\* rows of the open transaction.
C31_EachCommitted ==
    \A h \in holdings :
        \/ h = MakeHolding(h.symbol, fifo_queues[h.symbol], before)
        \/ last_commit # None /\ h = MakeHolding(h.symbol, fifo_queues[h.symbol], assets)

\* The dates of the rows get_performance_change selects as the baseline of
\* the 1-day change: the latest row of date('now', '-1 days') or before.
DailyBaselineDates ==
    {r.snapshot_date : r \in {x \in snapshots :
        /\ x.snapshot_date <= utc_today - 1
        /\ \A q \in snapshots : q.snapshot_date <= utc_today - 1 =>
                                  q.snapshot_date <= x.snapshot_date}}

\* C32 as claimed: when a summary has been returned, the baseline of its
\* 1-day change is dated strictly before the snapshot the computation has
\* written, which is the row of the local date.
C32_AsClaimed ==
    summary # None => \A d \in DailyBaselineDates : d < local_today

\* C32, what holds: when the local date is the date of the store or ahead
\* of it, the baseline of the 1-day change is dated before the snapshot
\* just written.
C32_NotBehind ==
    (summary # None /\ local_today >= utc_today) =>
        \A d \in DailyBaselineDates : d < local_today

\* The minute of the last commit of a batch: the latest minute a fetcher
\* has written into a row.
CommitMinute ==
    LET written == {assets[k].last_updated.minute :
                        k \in {x \in DOMAIN assets : assets[x].last_updated.sep = "T"}}
    IN  CHOOSE m \in written : \A n \in written : n <= m

\* The step calls, without force, the pipeline that has committed the last
\* batch, before that pipeline's threshold has elapsed since the commit.
CalledAgainEarly ==
    /\ fetch_pc = "idle"
    /\ runs' = runs + 1
    /\ ~forced'
    /\ last_commit = Some(update_type')
    /\ IF update_type' = "general" THEN minute - CommitMinute < 15
       ELSE minute - CommitMinute < 240

\* The call returns Ok at once and sends no request.
Skipped ==
    /\ returned' = Some("Ok")
    /\ fetch_pc' = "idle"
    /\ requested' = {}

\* C33 as claimed: a non-forced call of the pipeline that committed a batch,
\* made before the threshold elapses, is skipped by the gate whatever the
\* table held before that batch.
C33_AsClaimed == [][CalledAgainEarly => Skipped]_vars

\* C33, what holds: the call is skipped when the batch has written a row
\* whose asset_type is of the pipeline's own category.
C33_OwnCategory ==
    [][(/\ CalledAgainEarly
        /\ \E k \in DOMAIN assets :
             /\ assets[k].asset_type \in GateTypes(update_type')
             /\ assets[k].last_updated = Rfc3339(local_today, CommitMinute))
       => Skipped]_vars

\* The holdings returned are those of the ledger as it is.
HoldingsCurrent == pc = "done" /\ rows = transactions

\* The holding of the symbol of the i-th recorded transaction is valued at
\* the price of the assets row that add_transaction has written, or found,
\* for that symbol.
PricedFromEntry(i) ==
    \A h \in holdings :
        h.symbol = Key(rows[i]) =>
            /\ rows[i].symbol = h.symbol
            /\ h.current_price = assets[rows[i].symbol].current_price

\* C34 as claimed: for every transaction recorded through add_transaction,
\* whatever the case of the entered symbol, the key of its assets row is the
\* key the matcher looks up, and the holding carries the price of that row.
C34_AsClaimed ==
    HoldingsCurrent => \A i \in 1 .. Len(rows) : PricedFromEntry(i)

\* C34, what holds: the same for the symbols entered in upper case.
C34_UpperCase ==
    HoldingsCurrent =>
        \A i \in 1 .. Len(rows) : rows[i].symbol = ToUpper(rows[i].symbol) => PricedFromEntry(i)

====
